---- MODULE Spec2Model ----
(***************************************************************************)
(* PPR: the hooks that read a Google Sheet through three cache tiers.      *)
(*                                                                         *)
(*   useMedalTotals      loadTotals, the year effect, totalsCache and the  *)
(*                       IndexedDB store of medalCache; and the version of *)
(*                       the hook that fetched month by month              *)
(*   useNamesForSheet    with fetchNamesForSheet, namesCache and the       *)
(*                       localStorage entries of sheetsCache               *)
(*   useLeaderboardData  the chunked fetch, refresh, leaderboardCache      *)
(*   useNameData         the chunked fetch, cacheRef and sessionStorage    *)
(*                                                                         *)
(* A behaviour follows the one hook that is mounted; the hooks share no    *)
(* state.  An awaited operation settles in one step: its continuation up   *)
(* to the next await.  ev records what the last step of a hook did.        *)
(* Time is counted in hours (CACHE_TTL_MS is 24 of them).  A remote result *)
(* is the pair of the key it was computed for and the revision of the      *)
(* sheet at the moment the read was answered.                              *)
(***************************************************************************)
EXTENDS Integers, Sequences, FiniteSets, TLC

(* ------------------------------ bounds -------------------------------- *)
MaxRuns == 2
MaxCalls == 2
MaxFetches == 2
MaxNow == 25
MaxBoards == 2
MaxPageRows == 3
MaxHeaderCells == 3

(* ------------------------- program constants -------------------------- *)
CACHE_TTL_MS == 24
CHUNK_SIZE == 200
MAX_CHUNKS == 25

\* new Date().getFullYear(); a past year takes the same path as the current one
\* (monthsToFetch > 0), so the years are the current year and a future year
CurrentYear == 1
Years == {CurrentYear, CurrentYear + 1}
\* the clock moves by these many hours at a time: up to the TTL, and past it
TickHours == {24, 25}
\* the sheet as the session finds it, and after somebody edited it
Revisions == {"rev0", "rev1"}
Sheets == {"Push", "Pull"}

None == [none |-> TRUE]
NoError == "null"

VARIABLES
  mounted,      \* the hook this page session exercises
  now,          \* Date.now(), in hours
  sheetVer,     \* revision of the remote sheet
  year,         \* useMedalTotals: the year prop
  totals,       \* useMedalTotals: useState totals
  loading,      \* useMedalTotals: useState loading
  error,        \* useMedalTotals: useState error
  runIdRef,     \* useMedalTotals: runIdRef.current
  runs,         \* useMedalTotals: the loadTotals invocations that passed line 54
  eff,          \* useMedalTotals: the year effect's pending getCachedTotals
  totalsCache,  \* module-level Map<number, MedalTotalsByPeriod>
  idb,          \* IndexedDB store 'totals', keyed by year
  legacyYear,      \* useMedalTotals before bulkFetch: the year prop
  legacyTotals,    \* useMedalTotals before bulkFetch: useState totals
  legacyLoading,   \* useMedalTotals before bulkFetch: useState loading
  legacyError,     \* useMedalTotals before bulkFetch: useState error
  legacyRunIdRef,  \* useMedalTotals before bulkFetch: runIdRef.current
  legacyRuns,      \* useMedalTotals before bulkFetch: the run() invocations
  legacyCache,     \* useMedalTotals before bulkFetch: Map<number, MedalCount[]>
  sheet,        \* useNamesForSheet: the sheet prop
  names,        \* useNamesForSheet: useState names
  nLoading,     \* useNamesForSheet: useState loading
  nError,       \* useNamesForSheet: useState error
  nEff,         \* useNamesForSheet: the effect's pending getSheetValues
  calls,        \* fetchNamesForSheet: the invocations waiting for getSheetValues
  namesCache,   \* module-level Map<string, string[]>
  localStore,   \* localStorage entries 'ppr-names-' + sheet
  rosterRead,   \* the sheets whose header row a getSheetValues was issued for (history)
  corpus,       \* the remote date column: its length and the row dated today
  selectedSheet,    \* useLeaderboardData: the selectedSheet prop
  lbNames,          \* useLeaderboardData: the names prop
  leaderboard,      \* useLeaderboardData: useState leaderboard
  lbLoading,        \* useLeaderboardData: useState loading
  lbError,          \* useLeaderboardData: useState error
  lbFetches,        \* useLeaderboardData: the effects that started a chunked fetch
  leaderboardCache, \* module-level Map<string, LeaderboardEntry[]>
  ndSheet,          \* useNameData: the selectedSheet prop
  ndName,           \* useNameData: the selectedName prop
  ndNames,          \* useNameData: the names prop
  nameData,         \* useNameData: useState nameData
  ndLoading,        \* useNameData: useState loading
  ndError,          \* useNameData: useState error
  ndFetches,        \* useNameData: the effects that started a chunked fetch
  cacheRef,         \* useNameData: cacheRef.current
  sessionStore,     \* sessionStorage entries 'ppr-namedata-' + sheet + '|' + name
  book,         \* the remote workbook, row by row, that the computations read
  bulkCall,     \* fetchMedalTotalsBulk: the invocation, its year and its remote reads
  bulkCalls,    \* fetchMedalTotalsBulk: the invocations so far
  medalTotals,  \* fetchMedalTotalsBulk: what the last invocation returned
  flm,          \* fetchLeaderboardForMonth: the invocation and the chunk it awaits
  flmCalls,     \* fetchLeaderboardForMonth: the invocations so far
  flmOut,       \* fetchLeaderboardForMonth: what the last invocation returned
  monthCache,   \* leaderboardCache: the entries fetchLeaderboardForMonth has set
  pageRows,     \* HomePage: the nameData its hook returned
  page,         \* HomePage: what the last render or filterByDate call computed
  headerRow,    \* the values of E5:Z5 of the sheet
  headerNames,  \* the list fetchNamesForSheet and fetchAllSheetsBulk make of them
  column,       \* the column the last read for a roster position addressed
  ev            \* what the last handler step observed (history, not program state)

totalsVars == <<year, totals, loading, error, runIdRef, runs, eff, totalsCache, idb>>
legacyVars == <<legacyYear, legacyTotals, legacyLoading, legacyError, legacyRunIdRef,
                legacyRuns, legacyCache>>
namesVars == <<sheet, names, nLoading, nError, nEff, calls, namesCache, localStore,
               rosterRead>>
boardVars == <<selectedSheet, lbNames, leaderboard, lbLoading, lbError, lbFetches,
               leaderboardCache>>
nameDataVars == <<ndSheet, ndName, ndNames, nameData, ndLoading, ndError, ndFetches,
                  cacheRef, sessionStore>>
bulkVars == <<book, bulkCall, bulkCalls, medalTotals, flm, flmCalls, flmOut, monthCache>>
pageVars == <<pageRows, page>>
headerVars == <<headerRow, headerNames, column>>
envVars == <<now, sheetVer, corpus>>
hookVars == <<totalsVars, legacyVars, namesVars, boardVars, nameDataVars, bulkVars, pageVars,
             headerVars>>
vars == <<mounted, envVars, hookVars, ev>>

(* ------------------------ medal totals: values ------------------------ *)
\* { byYear: [], byQuarter: {1: [], ...}, byMonth: {} }
EmptyTotals == [yr |-> 0, ver |-> "rev0"]

\* fetchMedalTotalsBulk: zero months for a future year, else the totals of
\* the sheet as it is when the batched read is answered
monthsToFetchIsZero(y) == y > CurrentYear

fetchMedalTotalsBulk(y, ver) ==
  IF monthsToFetchIsZero(y) THEN EmptyTotals ELSE [yr |-> y, ver |-> ver]

\* fetchMedalTotalsBulk with the early return for monthsToFetch === 0 left out
bulkReadsWithoutEarlyReturn(y) == 1

\* number of remote reads fetchMedalTotalsBulk issues
bulkReads(y) == IF monthsToFetchIsZero(y) THEN 0 ELSE 1

(* --------------------------- medalCache -------------------------------- *)
\* getCachedTotals resolving null whatever the store holds
getCachedTotalsAlwaysNull(store, y, t) == None

\* getCachedTotals once the store answered: null when absent or older than TTL
getCachedTotals(store, y, t) ==
  IF store[y] = None THEN None
  ELSE IF t - store[y].fetchedAt > CACHE_TTL_MS THEN None
  ELSE store[y]

\* setCachedTotals: store.put({...data, fetchedAt: Date.now()})
setCachedTotals(store, y, data, t) ==
  [store EXCEPT ![y] = [data |-> data, fetchedAt |-> t]]

(* ------------------------ useMedalTotals ------------------------------- *)
\* a memory entry keeps the value; `at` is the time the value was fetched
\* (not stored by the program: it lets an entry's age be stated)
MemEntry(data, at) == [data |-> data, at |-> at]

\* the hooks with the set of the persisted value into the Map left out
PromoteOmitted(cache, key, persisted) == cache

\* totalsCache.set(year, data) / namesCache.set(sheet, persisted) on a hit of
\* the persistent store
Promote(cache, key, persisted) ==
  [cache EXCEPT ![key] = MemEntry(persisted.data, persisted.fetchedAt)]

\* The observation of one handler step:
\*   op     the handler or continuation that ran
\*   key    the year or the sheet it worked on
\*   cur    thisRunId === runIdRef.current when it ran
\*   force  the forceRefresh flag of its invocation
\*   src    the tier whose answer it received: "mem", "store", "remote", "none"
\*   reads  remote reads its invocation has issued so far
\*   old    the answer it received was fetched more than CACHE_TTL_MS ago
\*   ok     the awaited operation resolved (FALSE: it rejected); for a
\*          synchronous read of localStorage, that it did not throw
Ev(op, key, cur, force, src, reads, old, ok) ==
  [op |-> op, key |-> key, cur |-> cur, force |-> force, src |-> src,
   reads |-> reads, old |-> old, ok |-> ok]

Expired(at) == now - at > CACHE_TTL_MS

NewRun(y, force) ==
  [year |-> y, force |-> force,
   pc |-> IF force THEN "fetch" ELSE "db",
   reads |-> IF force THEN bulkReads(y) ELSE 0,
   data |-> EmptyTotals]

\* the hook with the comparison of the run id left out
RunIdNotCompared(r) == TRUE

\* thisRunId === runIdRef.current
IsCurrent(r) == r = runIdRef

\* finally { if (thisRunId === runIdRef.current) setLoading(false) }
FinallyLoading(r) == IF IsCurrent(r) THEN FALSE ELSE loading

\* the catch block without setTotals(empty)
CatchErrorKeepingTotals(r, msg) ==
  /\ error' = IF IsCurrent(r) THEN msg ELSE error
  /\ loading' = FinallyLoading(r)
  /\ UNCHANGED totals

\* catch (e) { if (thisRunId === runIdRef.current) { setError; setTotals(empty) } }
CatchError(r, msg) ==
  /\ error' = IF IsCurrent(r) THEN msg ELSE error
  /\ totals' = IF IsCurrent(r) THEN EmptyTotals ELSE totals
  /\ loading' = FinallyLoading(r)

\* the invocation returned; nothing of it is read again
Done(r) ==
  [runs EXCEPT ![r] = [year |-> CurrentYear, force |-> FALSE, pc |-> "done",
                       reads |-> 0, data |-> EmptyTotals]]

\* loadTotals(forceRefresh), up to its first await
LoadTotals(force) ==
  /\ mounted = "totals"
  /\ LET cache1 == IF force THEN [totalsCache EXCEPT ![year] = None] ELSE totalsCache
         cachedNow == cache1[year]
     IN IF cachedNow # None /\ ~force
        THEN /\ totals' = cachedNow.data
             /\ error' = NoError
             /\ ev' = Ev("load", year, TRUE, force, "mem", 0, Expired(cachedNow.at), TRUE)
             /\ UNCHANGED <<totalsCache, runIdRef, runs, loading>>
        ELSE /\ runIdRef < MaxRuns
             /\ totalsCache' = cache1
             /\ runIdRef' = runIdRef + 1
             /\ runs' = Append(runs, NewRun(year, force))
             /\ error' = NoError
             /\ loading' = TRUE
             /\ ev' = Ev("load", year, TRUE, force, "none", NewRun(year, force).reads, FALSE, TRUE)
             /\ UNCHANGED totals
  /\ UNCHANGED <<mounted, envVars, pageVars, headerVars, bulkVars, legacyVars, namesVars, boardVars, nameDataVars, year, eff, idb>>

\* await getCachedTotals(year) settles for run r
DbResolve(r, ok) ==
  /\ mounted = "totals"
  /\ r \in 1..Len(runs)
  /\ runs[r].pc = "db"
  /\ LET y == runs[r].year
         dbCached == getCachedTotals(idb, y, now)
         hit == ok /\ dbCached # None
         goOn == ok /\ ~hit /\ IsCurrent(r)
     IN /\ IF ~ok
           THEN \* openDB or the request rejected
                /\ CatchError(r, "storage")
                /\ UNCHANGED totalsCache
           ELSE IF ~IsCurrent(r)
           THEN UNCHANGED <<totalsCache, totals, loading, error>>
           ELSE IF hit
           THEN /\ totalsCache' = Promote(totalsCache, y, dbCached)
                /\ totals' = dbCached.data
                /\ loading' = FALSE
                /\ UNCHANGED error
           ELSE UNCHANGED <<totalsCache, totals, loading, error>>
        /\ runs' = IF goOn
                   THEN [runs EXCEPT ![r].pc = "fetch", ![r].reads = bulkReads(y)]
                   ELSE Done(r)
        /\ ev' = Ev("db", y, IsCurrent(r), FALSE, IF hit THEN "store" ELSE "none",
                    IF goOn THEN bulkReads(y) ELSE 0,
                    hit /\ Expired(dbCached.fetchedAt), ok)
  /\ UNCHANGED <<mounted, envVars, pageVars, headerVars, bulkVars, legacyVars, namesVars, boardVars, nameDataVars, year, runIdRef, eff, idb>>

\* await fetchMedalTotalsBulk(sheetNames, year) settles for run r
FetchResolve(r, ok) ==
  /\ mounted = "totals"
  /\ r \in 1..Len(runs)
  /\ runs[r].pc = "fetch"
  /\ LET y == runs[r].year
         data == fetchMedalTotalsBulk(y, sheetVer)
     IN /\ IF ~ok
           THEN \* only a remote read can reject
                /\ runs[r].reads > 0
                /\ CatchError(r, "transport")
                /\ runs' = Done(r)
                /\ UNCHANGED totalsCache
           ELSE IF ~IsCurrent(r)
           THEN /\ runs' = Done(r)
                /\ UNCHANGED <<totalsCache, totals, loading, error>>
           ELSE /\ totalsCache' = [totalsCache EXCEPT ![y] = MemEntry(data, now)]
                /\ totals' = data
                /\ runs' = [runs EXCEPT ![r].pc = "persist", ![r].data = data]
                /\ UNCHANGED <<loading, error>>
        /\ ev' = Ev("fetch", y, IsCurrent(r), runs[r].force,
                    IF ok THEN "remote" ELSE "none", runs[r].reads, FALSE, ok)
  /\ UNCHANGED <<mounted, envVars, pageVars, headerVars, bulkVars, legacyVars, namesVars, boardVars, nameDataVars, year, runIdRef, eff, idb>>

\* await setCachedTotals({ year, ...data }) settles for run r
PersistResolve(r, ok) ==
  /\ mounted = "totals"
  /\ r \in 1..Len(runs)
  /\ runs[r].pc = "persist"
  /\ IF ok
     THEN /\ idb' = setCachedTotals(idb, runs[r].year, runs[r].data, now)
          /\ loading' = FinallyLoading(r)
          /\ UNCHANGED <<totals, error>>
     ELSE /\ CatchError(r, "storage")
          /\ UNCHANGED idb
  /\ runs' = Done(r)
  /\ ev' = Ev("persist", runs[r].year, IsCurrent(r), runs[r].force, "none",
              runs[r].reads, FALSE, ok)
  /\ UNCHANGED <<mounted, envVars, pageVars, headerVars, bulkVars, legacyVars, namesVars, boardVars, nameDataVars, year, runIdRef, eff, totalsCache>>

\* the effect on [year]: body of lines 102-126, after the previous cleanup
YearEffect(y) ==
  LET cachedNow == totalsCache[y]
  IN IF cachedNow # None
     THEN /\ totals' = cachedNow.data
          /\ error' = NoError
          /\ eff' = [pc |-> "none", year |-> y]
          /\ ev' = Ev("effect", y, TRUE, FALSE, "mem", 0, Expired(cachedNow.at), TRUE)
     ELSE /\ totals' = EmptyTotals
          /\ error' = NoError
          /\ eff' = [pc |-> "db", year |-> y]
          /\ ev' = Ev("effect", y, TRUE, FALSE, "none", 0, FALSE, TRUE)

\* the page selects another year; the effect re-runs
SetYear(y) ==
  /\ mounted = "totals"
  /\ y # year
  /\ year' = y
  /\ YearEffect(y)
  /\ UNCHANGED <<mounted, envVars, pageVars, headerVars, bulkVars, legacyVars, namesVars, boardVars, nameDataVars, loading, runIdRef, runs, totalsCache, idb>>

\* getCachedTotals(year).then(...) of the effect that is not cancelled
EffResolve(ok) ==
  /\ mounted = "totals"
  /\ eff.pc = "db"
  /\ eff' = [eff EXCEPT !.pc = "none"]
  /\ LET dbCached == getCachedTotals(idb, eff.year, now)
         hit == ok /\ dbCached # None
     IN /\ IF hit /\ totalsCache[eff.year] = None
           THEN /\ totalsCache' = Promote(totalsCache, eff.year, dbCached)
                /\ totals' = dbCached.data
           ELSE UNCHANGED <<totalsCache, totals>>
        /\ ev' = Ev("effdb", eff.year, TRUE, FALSE, IF hit THEN "store" ELSE "none", 0,
                    hit /\ Expired(dbCached.fetchedAt), ok)
  /\ UNCHANGED <<mounted, envVars, pageVars, headerVars, bulkVars, legacyVars, namesVars, boardVars, nameDataVars, year, loading, error, runIdRef, runs, idb>>

(* --------------------------- sheetsCache ------------------------------- *)
\* getCached with >= in place of > in the comparison with the TTL
getCachedExpiringEarly(store, key, t, throws) ==
  IF throws THEN None
  ELSE IF store[key] = None THEN None
  ELSE IF t - store[key].fetchedAt >= CACHE_TTL_MS THEN None
  ELSE store[key]

\* getCached without the comparison with the TTL
getCachedWithoutTtl(store, key, t, throws) ==
  IF throws THEN None ELSE store[key]

\* getCached: null when localStorage throws, when the key is absent, and when
\* the payload is older than the TTL; else the payload, of which the caller
\* receives .data
getCached(store, key, t, throws) ==
  IF throws THEN None
  ELSE IF store[key] = None THEN None
  ELSE IF t - store[key].fetchedAt > CACHE_TTL_MS THEN None
  ELSE store[key]

\* setCached: { data, fetchedAt: Date.now() }; a throwing setItem is ignored
setCached(store, key, data, t, throws) ==
  IF throws THEN store ELSE [store EXCEPT ![key] = [data |-> data, fetchedAt |-> t]]

(* ------------------- fetchNamesForSheet, useNamesForSheet -------------- *)
\* the header row E5:Z5 of a sheet, trimmed and without blanks; the edit of the
\* sheet adds a participant
NoNames == <<>>
rosterOf(sh, ver) ==
  (IF sh = "Push" THEN <<"Al", "Bo">> ELSE <<"Bo", "Al">>)
    \o (IF ver = "rev1" THEN <<"Cy">> ELSE <<>>)

\* fetchNamesForSheet(sheet), up to its await
FetchNames(sh, throws) ==
  /\ mounted = "names"
  /\ LET cached == namesCache[sh]
         persisted == getCached(localStore, sh, now, throws)
     IN IF cached # None
        THEN /\ ev' = Ev("fetchNames", sh, TRUE, FALSE, "mem", 0, Expired(cached.at), TRUE)
             /\ UNCHANGED <<namesCache, calls>>
        ELSE IF persisted # None
        THEN /\ namesCache' = Promote(namesCache, sh, persisted)
             /\ ev' = Ev("fetchNames", sh, TRUE, FALSE, "store", 0,
                         Expired(persisted.fetchedAt), ~throws)
             /\ UNCHANGED calls
        ELSE /\ Len(calls) < MaxCalls
             /\ calls' = Append(calls, [sheet |-> sh, pc |-> "read"])
             /\ ev' = Ev("fetchNames", sh, TRUE, FALSE, "none", 1, FALSE, ~throws)
             /\ UNCHANGED namesCache
  /\ rosterRead' = IF ev'.reads = 1 THEN rosterRead \cup {sh} ELSE rosterRead
  /\ UNCHANGED <<mounted, envVars, pageVars, headerVars, bulkVars, legacyVars, totalsVars, boardVars, nameDataVars, sheet, names, nLoading, nError, nEff, localStore>>

\* await getSheetValues(rangeA1) settles for invocation c
FetchNamesResolve(c, ok, throws) ==
  /\ mounted = "names"
  /\ c \in 1..Len(calls)
  /\ calls[c].pc = "read"
  /\ calls' = [calls EXCEPT ![c] = [sheet |-> "", pc |-> "done"]]
  /\ LET sh == calls[c].sheet
         list == rosterOf(sh, sheetVer)
     IN /\ IF ok
           THEN /\ namesCache' = [namesCache EXCEPT ![sh] = MemEntry(list, now)]
                /\ localStore' = setCached(localStore, sh, list, now, throws)
           ELSE /\ ~throws
                /\ UNCHANGED <<namesCache, localStore>>
        /\ ev' = Ev("fetchNamesRes", sh, TRUE, FALSE, IF ok THEN "remote" ELSE "none",
                    1, FALSE, ok)
  /\ UNCHANGED <<mounted, envVars, pageVars, headerVars, bulkVars, legacyVars, totalsVars, boardVars, nameDataVars, sheet, names, nLoading, nError, nEff, rosterRead>>

\* the effect on [sheet]: the previous cleanup sets its cancelled flag, then the body
SetSheet(sh, throws) ==
  /\ mounted = "names"
  /\ sh # sheet
  /\ sheet' = sh
  /\ IF sh = ""
     THEN /\ names' = NoNames
          /\ nEff' = [pc |-> "none", sheet |-> sh]
          /\ ev' = Ev("namesEffect", sh, TRUE, FALSE, "none", 0, FALSE, TRUE)
          /\ UNCHANGED <<nError, nLoading, namesCache>>
     ELSE LET cached == namesCache[sh]
              persisted == getCached(localStore, sh, now, throws)
          IN IF cached # None
             THEN /\ names' = cached.data
                  /\ nError' = NoError
                  /\ nEff' = [pc |-> "none", sheet |-> sh]
                  /\ ev' = Ev("namesEffect", sh, TRUE, FALSE, "mem", 0,
                              Expired(cached.at), TRUE)
                  /\ UNCHANGED <<nLoading, namesCache>>
             ELSE IF persisted # None
             THEN /\ namesCache' = Promote(namesCache, sh, persisted)
                  /\ names' = persisted.data
                  /\ nError' = NoError
                  /\ nEff' = [pc |-> "none", sheet |-> sh]
                  /\ ev' = Ev("namesEffect", sh, TRUE, FALSE, "store", 0,
                              Expired(persisted.fetchedAt), ~throws)
                  /\ UNCHANGED nLoading
             ELSE /\ nError' = NoError
                  /\ nLoading' = TRUE
                  /\ nEff' = [pc |-> "read", sheet |-> sh]
                  /\ ev' = Ev("namesEffect", sh, TRUE, FALSE, "none", 1, FALSE, ~throws)
                  /\ UNCHANGED <<names, namesCache>>
  /\ rosterRead' = IF ev'.reads = 1 THEN rosterRead \cup {sh} ELSE rosterRead
  /\ UNCHANGED <<mounted, envVars, pageVars, headerVars, bulkVars, legacyVars, totalsVars, boardVars, nameDataVars, calls, localStore>>

\* getSheetValues(rangeA1) of the effect that is not cancelled settles
NamesEffResolve(ok, throws) ==
  /\ mounted = "names"
  /\ nEff.pc = "read"
  /\ nEff' = [nEff EXCEPT !.pc = "none"]
  /\ LET sh == nEff.sheet
         list == rosterOf(sh, sheetVer)
     IN /\ IF ok
           THEN /\ namesCache' = [namesCache EXCEPT ![sh] = MemEntry(list, now)]
                /\ localStore' = setCached(localStore, sh, list, now, throws)
                /\ names' = list
                /\ UNCHANGED nError
           ELSE /\ ~throws
                /\ nError' = "transport"
                /\ names' = NoNames
                /\ UNCHANGED <<namesCache, localStore>>
        /\ nLoading' = FALSE
        /\ ev' = Ev("namesEffRes", sh, TRUE, FALSE, IF ok THEN "remote" ELSE "none",
                    1, FALSE, ok)
  /\ UNCHANGED <<mounted, envVars, pageVars, headerVars, bulkVars, legacyVars, totalsVars, boardVars, nameDataVars, sheet, calls, rosterRead>>

(* ---------------------- the chunked row fetcher ------------------------ *)
\* The date column D6:D of a sheet: `len` rows hold a date, row `today` (counted
\* from 1, 0 when there is none) holds today's date.  A chunk read answers with
\* the rows of the range that exist; trailing empty rows are omitted.
Corpora ==
  { [len |-> 150, today |-> 0], [len |-> 150, today |-> 100],
    [len |-> 200, today |-> 0],
    [len |-> 450, today |-> 300], [len |-> 450, today |-> 0] }

Min(a, b) == IF a < b THEN a ELSE b
Max(a, b) == IF a > b THEN a ELSE b

\* dateRows.length of the answer to chunk chunkIndex
dateRowsLength(c, chunkIndex) == Max(0, Min(CHUNK_SIZE, c.len - chunkIndex * CHUNK_SIZE))

\* allDateRows.findIndex(today) + 1 over the first n accumulated rows, 0 when -1
foundToday(c, n) == IF c.today >= 1 /\ c.today <= n THEN c.today ELSE 0

\* fetchChunk without the test of chunkIndex against MAX_CHUNKS
lastChunkWithoutCap(c, chunkIndex, n) ==
  \/ foundToday(c, n) > 0
  \/ dateRowsLength(c, chunkIndex) < CHUNK_SIZE

\* fetchChunk returns without asking for chunkIndex + 1
lastChunk(c, chunkIndex, n) ==
  \/ foundToday(c, n) > 0
  \/ dateRowsLength(c, chunkIndex) < CHUNK_SIZE
  \/ chunkIndex >= MAX_CHUNKS - 1

\* the fetchers with every accumulated row handed on
stopIndexWholeChunk(c, n) == n

\* const stop = todayIndex >= 0 ? todayIndex + 1 : allDateRows.length
stopIndex(c, n) == IF foundToday(c, n) > 0 THEN foundToday(c, n) ELSE n

\* the effect asking for the chunks 0 and 1 at once
NewFetchReadingAhead(key, roster, force) ==
  [key |-> key, roster |-> roster, force |-> force, cancelled |-> FALSE,
   chunkIndex |-> 0, rows |-> 0, reads |-> 2, pc |-> "read"]

\* fetchChunk(0): the first read is on its way
NewFetch(key, roster, force) ==
  [key |-> key, roster |-> roster, force |-> force, cancelled |-> FALSE,
   chunkIndex |-> 0, rows |-> 0, reads |-> 1, pc |-> "read"]

DoneFetch ==
  [key |-> "", roster |-> NoNames, force |-> FALSE, cancelled |-> TRUE,
   chunkIndex |-> 0, rows |-> 0, reads |-> 0, pc |-> "done"]

\* the hooks with the test of the cancelled flag left out
CancelledNotTested(ft) == FALSE

\* if (cancelled) return
IsCancelled(ft) == ft.cancelled

\* return () => { cancelled = true } of every effect that ran before
Cancel(fetches) == [i \in 1..Len(fetches) |->
                      IF fetches[i].pc = "done" THEN fetches[i]
                      ELSE [fetches[i] EXCEPT !.cancelled = TRUE]]

(* ------------------------ useLeaderboardData --------------------------- *)
EmptyBoard == [sheet |-> "", roster |-> NoNames, ver |-> "rev0", stop |-> 0]

\* the entries computed from the rows below `stop`, ranked, for one roster
Entries(sh, roster, ver, stop) == [sheet |-> sh, roster |-> roster, ver |-> ver, stop |-> stop]

\* the effect body (lines 247-352) after the cleanup of the previous effect
BoardEffect(sh, ns, cache, force) ==
  IF sh = "" \/ ns = NoNames
  THEN /\ leaderboard' = EmptyBoard
       /\ lbError' = NoError
       /\ lbFetches' = Cancel(lbFetches)
       /\ ev' = Ev("boardEffect", sh, TRUE, force, "none", 0, FALSE, TRUE)
       /\ UNCHANGED lbLoading
  ELSE IF cache[sh] # None
  THEN /\ leaderboard' = cache[sh]
       /\ lbError' = NoError
       /\ lbLoading' = FALSE
       /\ lbFetches' = Cancel(lbFetches)
       /\ ev' = Ev("boardEffect", sh, TRUE, force, "mem", 0, FALSE, TRUE)
  ELSE /\ Len(lbFetches) < MaxFetches
       /\ lbError' = NoError
       /\ lbLoading' = TRUE
       /\ lbFetches' = Append(Cancel(lbFetches), NewFetch(sh, ns, force))
       /\ ev' = Ev("boardEffect", sh, TRUE, force, "none", 1, FALSE, TRUE)
       /\ UNCHANGED leaderboard

\* the page passes another sheet or another roster
SetBoardInputs(sh, ns) ==
  /\ mounted = "board"
  /\ <<sh, ns>> # <<selectedSheet, lbNames>>
  /\ selectedSheet' = sh
  /\ lbNames' = ns
  /\ BoardEffect(sh, ns, leaderboardCache, FALSE)
  /\ UNCHANGED <<mounted, envVars, pageVars, headerVars, bulkVars, legacyVars, totalsVars, namesVars, nameDataVars, leaderboardCache>>

\* refresh(): the key leaves the cache, refreshTrigger changes, the effect re-runs
Refresh ==
  /\ mounted = "board"
  /\ LET cache1 == [k \in Sheets |-> IF k = selectedSheet THEN None ELSE leaderboardCache[k]]
     IN /\ leaderboardCache' = cache1
        /\ BoardEffect(selectedSheet, lbNames, cache1, TRUE)
  /\ UNCHANGED <<mounted, envVars, pageVars, headerVars, bulkVars, legacyVars, totalsVars, namesVars, nameDataVars, selectedSheet, lbNames>>

\* getSheetValuesBatch(ranges) of fetch f settles: the rest of fetchChunk, and
\* when the chain ends its then, catch and finally
BoardChunkResolve(f, ok) ==
  /\ mounted = "board"
  /\ f \in 1..Len(lbFetches)
  /\ lbFetches[f].pc = "read"
  /\ LET ft == lbFetches[f]
         n == ft.rows + dateRowsLength(corpus, ft.chunkIndex)
         last == lastChunk(corpus, ft.chunkIndex, n)
         entries == Entries(ft.key, ft.roster, sheetVer, stopIndex(corpus, n))
     IN IF IsCancelled(ft)
        THEN /\ lbFetches' = [lbFetches EXCEPT ![f] = DoneFetch]
             /\ ev' = Ev("boardChunk", ft.key, FALSE, ft.force,
                         IF ok THEN "remote" ELSE "none", ft.reads, FALSE, ok)
             /\ UNCHANGED <<leaderboard, lbLoading, lbError, leaderboardCache>>
        ELSE IF ~ok
        THEN /\ lbError' = "transport"
             /\ leaderboard' = EmptyBoard
             /\ lbLoading' = FALSE
             /\ lbFetches' = [lbFetches EXCEPT ![f] = DoneFetch]
             /\ ev' = Ev("boardChunk", ft.key, TRUE, ft.force, "none", ft.reads, FALSE, FALSE)
             /\ UNCHANGED leaderboardCache
        ELSE IF ~last
        THEN /\ lbFetches' = [lbFetches EXCEPT ![f].chunkIndex = ft.chunkIndex + 1,
                                               ![f].rows = n,
                                               ![f].reads = ft.reads + 1]
             /\ ev' = Ev("boardChunk", ft.key, TRUE, ft.force, "none", ft.reads + 1, FALSE, TRUE)
             /\ UNCHANGED <<leaderboard, lbLoading, lbError, leaderboardCache>>
        ELSE /\ leaderboardCache' = [leaderboardCache EXCEPT ![ft.key] = entries]
             /\ leaderboard' = entries
             /\ lbLoading' = FALSE
             /\ lbFetches' = [lbFetches EXCEPT ![f] = DoneFetch]
             /\ ev' = Ev("boardChunk", ft.key, TRUE, ft.force, "remote", ft.reads, FALSE, TRUE)
             /\ UNCHANGED lbError
  /\ UNCHANGED <<mounted, envVars, pageVars, headerVars, bulkVars, legacyVars, totalsVars, namesVars, nameDataVars, selectedSheet, lbNames>>

(* ---------------------------- useNameData ----------------------------- *)
\* the names the picker offers; "Cy" joins the rosters only with the edit
PickNames == {"Al", "Cy"}
NdKeys == Sheets \X PickNames

\* names.indexOf(selectedName), -1 when absent
indexOf(ns, name) ==
  IF \E i \in 1..Len(ns) : ns[i] = name
  THEN (CHOOSE i \in 1..Len(ns) : ns[i] = name /\ \A j \in 1..(i - 1) : ns[j] # name) - 1
  ELSE -1

EmptyRows == [key |-> <<"", "">>, col |-> 0, ver |-> "rev0", stop |-> 0]

\* the date/value rows 1..stop of column E + col
RowsOf(key, col, ver, stop) == [key |-> key, col |-> col, ver |-> ver, stop |-> stop]

\* the effect body (lines 94-188) after the cleanup of the previous effect
NameDataEffect(sh, name, ns) ==
  IF sh = "" \/ name = ""
  THEN /\ nameData' = EmptyRows
       /\ ndFetches' = Cancel(ndFetches)
       /\ ev' = Ev("nameDataEffect", <<sh, name>>, TRUE, FALSE, "none", 0, FALSE, TRUE)
       /\ UNCHANGED <<ndLoading, ndError>>
  ELSE IF ns = NoNames
  THEN /\ ndFetches' = Cancel(ndFetches)
       /\ ev' = Ev("nameDataEffect", <<sh, name>>, TRUE, FALSE, "none", 0, FALSE, TRUE)
       /\ UNCHANGED <<nameData, ndLoading, ndError>>
  ELSE IF indexOf(ns, name) < 0
  THEN /\ nameData' = EmptyRows
       /\ ndFetches' = Cancel(ndFetches)
       /\ ev' = Ev("nameDataEffect", <<sh, name>>, TRUE, FALSE, "none", 0, FALSE, TRUE)
       /\ UNCHANGED <<ndLoading, ndError>>
  ELSE IF cacheRef[<<sh, name>>] # None
  THEN /\ nameData' = cacheRef[<<sh, name>>]
       /\ ndError' = NoError
       /\ ndFetches' = Cancel(ndFetches)
       /\ ev' = Ev("nameDataEffect", <<sh, name>>, TRUE, FALSE, "mem", 0, FALSE, TRUE)
       /\ UNCHANGED ndLoading
  ELSE /\ Len(ndFetches) < MaxFetches
       /\ ndError' = NoError
       /\ ndLoading' = TRUE
       /\ ndFetches' = Append(Cancel(ndFetches), NewFetch(<<sh, name>>, ns, FALSE))
       /\ ev' = Ev("nameDataEffect", <<sh, name>>, TRUE, FALSE, "none", 1, FALSE, TRUE)
       /\ UNCHANGED nameData

\* the page passes another sheet, name or roster
SetNameDataInputs(sh, name, ns) ==
  /\ mounted = "namedata"
  /\ <<sh, name, ns>> # <<ndSheet, ndName, ndNames>>
  /\ ndSheet' = sh
  /\ ndName' = name
  /\ ndNames' = ns
  /\ NameDataEffect(sh, name, ns)
  /\ UNCHANGED <<mounted, envVars, pageVars, headerVars, bulkVars, legacyVars, totalsVars, namesVars, boardVars, cacheRef, sessionStore>>

\* getSheetValuesBatch([datesRange, valuesRange]) of fetch f settles
NameDataChunkResolve(f, ok, throws) ==
  /\ mounted = "namedata"
  /\ f \in 1..Len(ndFetches)
  /\ ndFetches[f].pc = "read"
  /\ LET ft == ndFetches[f]
         n == ft.rows + dateRowsLength(corpus, ft.chunkIndex)
         last == lastChunk(corpus, ft.chunkIndex, n)
         rows == RowsOf(ft.key, indexOf(ft.roster, ft.key[2]), sheetVer, stopIndex(corpus, n))
     IN IF IsCancelled(ft)
        THEN /\ ~throws
             /\ ndFetches' = [ndFetches EXCEPT ![f] = DoneFetch]
             /\ ev' = Ev("nameDataChunk", ft.key, FALSE, FALSE,
                         IF ok THEN "remote" ELSE "none", ft.reads, FALSE, ok)
             /\ UNCHANGED <<nameData, ndLoading, ndError, cacheRef, sessionStore>>
        ELSE IF ~ok
        THEN /\ ~throws
             /\ ndError' = "transport"
             /\ nameData' = EmptyRows
             /\ ndLoading' = FALSE
             /\ ndFetches' = [ndFetches EXCEPT ![f] = DoneFetch]
             /\ ev' = Ev("nameDataChunk", ft.key, TRUE, FALSE, "none", ft.reads, FALSE, FALSE)
             /\ UNCHANGED <<cacheRef, sessionStore>>
        ELSE IF ~last
        THEN /\ ~throws
             /\ ndFetches' = [ndFetches EXCEPT ![f].chunkIndex = ft.chunkIndex + 1,
                                               ![f].rows = n,
                                               ![f].reads = ft.reads + 1]
             /\ ev' = Ev("nameDataChunk", ft.key, TRUE, FALSE, "none", ft.reads + 1, FALSE, TRUE)
             /\ UNCHANGED <<nameData, ndLoading, ndError, cacheRef, sessionStore>>
        ELSE /\ cacheRef' = [cacheRef EXCEPT ![ft.key] = rows]
             \* try { sessionStorage.setItem(...) } catch { /* ignore */ }
             /\ sessionStore' = IF throws THEN sessionStore
                                ELSE [sessionStore EXCEPT ![ft.key] = rows]
             /\ nameData' = rows
             /\ ndLoading' = FALSE
             /\ ndFetches' = [ndFetches EXCEPT ![f] = DoneFetch]
             /\ ev' = Ev("nameDataChunk", ft.key, TRUE, FALSE, "remote", ft.reads, FALSE, TRUE)
             /\ UNCHANGED ndError
  /\ UNCHANGED <<mounted, envVars, pageVars, headerVars, bulkVars, legacyVars, totalsVars, namesVars, boardVars, ndSheet, ndName, ndNames>>

(* ------------- useMedalTotals before bulkFetch (legacy) ---------------- *)
\* now.getMonth() + 1
CurrentMonth == 2

\* the months of a year that has begun, whatever the current month
monthsToFetchWholeYear(y) == IF y <= CurrentYear THEN 12 ELSE 0

\* year < currentYear ? 12 : year === currentYear ? currentMonth : 0
monthsToFetch(y) ==
  IF y < CurrentYear THEN 12 ELSE IF y = CurrentYear THEN CurrentMonth ELSE 0

\* the sheetNames prop
SheetNames == <<"Push", "Pull">>

\* run(): the sheet and month it is at, the await it is suspended on, and the
\* revision its aggregate was last fed from
NewLegacyRun(y) == [year |-> y, sheet |-> 1, month |-> 1, pc |-> "names", ver |-> "rev0"]

LegacyDone(r) ==
  [legacyRuns EXCEPT ![r] = [year |-> CurrentYear, sheet |-> 1, month |-> 1,
                             pc |-> "done", ver |-> "rev0"]]

LegacyIsCurrent(r) == r = legacyRunIdRef

\* loadTotals() of the hook that fetches sheet by sheet and month by month
LegacyLoadTotals ==
  /\ mounted = "legacy"
  /\ IF legacyCache[legacyYear] # None
     THEN /\ legacyTotals' = legacyCache[legacyYear]
          /\ legacyError' = NoError
          /\ ev' = Ev("legacyLoad", legacyYear, TRUE, FALSE, "mem", 0, FALSE, TRUE)
          /\ UNCHANGED <<legacyRunIdRef, legacyRuns, legacyLoading>>
     ELSE IF monthsToFetch(legacyYear) = 0
     THEN /\ legacyTotals' = EmptyTotals
          /\ ev' = Ev("legacyLoad", legacyYear, TRUE, FALSE, "none", 0, FALSE, TRUE)
          /\ UNCHANGED <<legacyError, legacyRunIdRef, legacyRuns, legacyLoading>>
     ELSE /\ legacyRunIdRef < MaxRuns
          /\ legacyRunIdRef' = legacyRunIdRef + 1
          /\ legacyRuns' = Append(legacyRuns, NewLegacyRun(legacyYear))
          /\ legacyError' = NoError
          /\ legacyLoading' = TRUE
          /\ ev' = Ev("legacyLoad", legacyYear, TRUE, FALSE, "none", 1, FALSE, TRUE)
          /\ UNCHANGED legacyTotals
  /\ UNCHANGED <<mounted, envVars, pageVars, headerVars, bulkVars, totalsVars, namesVars, boardVars, nameDataVars,
                 legacyYear, legacyCache>>

\* the await run r is suspended on settles: fetchNamesForSheet, delay,
\* fetchLeaderboardForMonth, delay
LegacyResolve(r, ok) ==
  /\ mounted = "legacy"
  /\ r \in 1..Len(legacyRuns)
  /\ LET run == legacyRuns[r]
         cur == LegacyIsCurrent(r)
         lastMonth == run.month >= monthsToFetch(run.year)
         lastSheet == run.sheet >= Len(SheetNames)
         \* line 53 follows the last delay of a sheet without a check of the run id
         checked == ~(run.pc = "delay2" /\ lastMonth /\ ~lastSheet)
         result == [yr |-> run.year, ver |-> run.ver]
     IN /\ run.pc # "done"
        /\ run.pc \in {"delay", "delay2"} => ok
        /\ IF ~ok
           THEN /\ legacyError' = IF cur THEN "transport" ELSE legacyError
                /\ legacyTotals' = IF cur THEN EmptyTotals ELSE legacyTotals
                /\ legacyLoading' = IF cur THEN FALSE ELSE legacyLoading
                /\ legacyRuns' = LegacyDone(r)
                /\ UNCHANGED legacyCache
           ELSE IF checked /\ ~cur
           THEN /\ legacyRuns' = LegacyDone(r)
                /\ UNCHANGED <<legacyError, legacyTotals, legacyLoading, legacyCache>>
           ELSE IF run.pc = "delay2" /\ lastMonth /\ lastSheet
           THEN /\ legacyCache' = [legacyCache EXCEPT ![run.year] = result]
                /\ legacyTotals' = result
                /\ legacyLoading' = FALSE
                /\ legacyRuns' = LegacyDone(r)
                /\ UNCHANGED legacyError
           ELSE /\ legacyRuns' = [legacyRuns EXCEPT ![r] =
                     CASE run.pc = "names" -> [run EXCEPT !.pc = "delay"]
                       [] run.pc = "delay" -> [run EXCEPT !.pc = "board"]
                       [] run.pc = "board" -> [run EXCEPT !.pc = "delay2", !.ver = sheetVer]
                       [] run.pc = "delay2" /\ ~lastMonth ->
                            [run EXCEPT !.pc = "board", !.month = run.month + 1]
                       [] OTHER -> [run EXCEPT !.pc = "names", !.month = 1,
                                               !.sheet = run.sheet + 1]]
                /\ UNCHANGED <<legacyError, legacyTotals, legacyLoading, legacyCache>>
        /\ ev' = Ev("legacyRun", run.year, cur, FALSE,
                    IF run.pc \in {"names", "board"} THEN "remote" ELSE "none",
                    0, FALSE, ok)
  /\ UNCHANGED <<mounted, envVars, pageVars, headerVars, bulkVars, totalsVars, namesVars, boardVars, nameDataVars,
                 legacyYear, legacyRunIdRef>>

\* the year prop changes: useEffect(..., [year]) shows what memory holds
LegacySetYear(y) ==
  /\ mounted = "legacy"
  /\ y # legacyYear
  /\ legacyYear' = y
  /\ legacyTotals' = IF legacyCache[y] # None THEN legacyCache[y] ELSE EmptyTotals
  /\ legacyError' = NoError
  /\ ev' = Ev("legacyEffect", y, TRUE, FALSE,
              IF legacyCache[y] # None THEN "mem" ELSE "none", 0, FALSE, TRUE)
  /\ UNCHANGED <<mounted, envVars, pageVars, headerVars, bulkVars, totalsVars, namesVars, boardVars, nameDataVars,
                 legacyLoading, legacyRunIdRef, legacyRuns, legacyCache>>

(* ------------- the workbook the computations read, row by row ---------- *)
\* const MAX_ROWS = 3500
MAX_ROWS == 3500

Months == 1..12

\* the years a caller asks for: last year, this year, next year
BulkYears == {CurrentYear - 1, CurrentYear, CurrentYear + 1}

\* A row of D6:Z that carries numbers: its index (from 1), the year and month
\* its date cell parses to, and the numbers of the columns E.. in roster order
\* (a blank or non-numeric cell counts 0: Number(val) is 0, or NaN and skipped).
Row(i, y, m, vals) == [i |-> i, y |-> y, m |-> m, today |-> FALSE, vals |-> vals]

\* a row whose date is today: isSameCalendarDay(parsed, today)
Today(i, vals) ==
  [i |-> i, y |-> CurrentYear, m |-> CurrentMonth, today |-> TRUE, vals |-> vals]

\* allDateRows.findIndex(today) + 1 over the whole column, 0 when -1
firstToday(rows) ==
  LET at == {r.i : r \in {x \in rows : x.today}}
  IN IF at = {} THEN 0 ELSE CHOOSE i \in at : \A j \in at : i <= j

\* A sheet: the roster of E5:Z5, the number of rows of D6:D that hold a date,
\* and the rows that carry numbers; every other row holds a date of some other
\* year and no numbers.
Grid(ns, len, rows) ==
  [names |-> ns, len |-> len, rows |-> rows, today |-> firstToday(rows)]

Quartet == <<"Al", "Bo", "Cy", "Di">>
Trio == <<"Al", "Bo", "Cy">>
Duo == <<"Al", "Bo">>

\* today in the first chunk, with a row of numbers after it
GridShort ==
  Grid(Quartet, 150, { Row(10, CurrentYear, 1, <<10, 10, 7, 1>>),
                       Row(40, CurrentYear, 2, <<1, 5, 5, 0>>),
                       Today(100, <<0, 0, 9, 0>>),
                       Row(120, CurrentYear, 2, <<50, 0, 0, 0>>) })

\* two rows dated today
GridTwice ==
  Grid(Quartet, 150, { Row(10, CurrentYear, 1, <<3, 2, 1, 0>>),
                       Today(100, <<1, 0, 0, 0>>),
                       Today(101, <<0, 5, 0, 0>>) })

\* today in the second chunk, which extends past it
GridLate ==
  Grid(Duo, 450, { Row(20, CurrentYear - 1, 5, <<4, 6>>),
                   Row(250, CurrentYear, 1, <<2, 1>>),
                   Today(300, <<1, 1>>),
                   Row(350, CurrentYear, 2, <<0, 9>>) })

\* more rows than any reader asks for, none dated today
GridLong ==
  Grid(Trio, 5200, { Row(100, CurrentYear - 1, 12, <<1, 2, 3>>),
                     Row(3400, CurrentYear, 1, <<5, 0, 0>>),
                     Row(4990, CurrentYear, 2, <<0, 0, 7>>),
                     Row(5100, CurrentYear, 2, <<0, 9, 0>>) })

\* exactly one full chunk
GridExact == Grid(Duo, 200, { Row(200, CurrentYear, 2, <<1, 2>>) })

\* a sheet nobody has written to
GridEmpty == Grid(<<>>, 0, {})

\* one participant
GridSolo == Grid(<<"Cy">>, 30, { Row(5, CurrentYear - 1, 3, <<2>>), Today(20, <<1>>) })

\* numbers in every month of last year
GridPast ==
  Grid(Quartet, 400,
       { Row(10 * m, CurrentYear - 1, m,
             IF m % 2 = 0 THEN <<m, 1, 2, 0>> ELSE <<0, 3, m, 3>>) : m \in Months }
       \cup { Row(300, CurrentYear, 1, <<2, 2, 2, 2>>), Today(390, <<0, 1, 0, 0>>) })

Grids == {GridShort, GridTwice, GridLate, GridLong, GridExact, GridEmpty, GridSolo, GridPast}

Books ==
  { [Push |-> GridShort, Pull |-> GridLate],
    [Push |-> GridTwice, Pull |-> GridSolo],
    [Push |-> GridLong, Pull |-> GridExact],
    [Push |-> GridPast, Pull |-> GridShort],
    [Push |-> GridEmpty, Pull |-> GridPast],
    [Push |-> GridSolo, Pull |-> GridTwice],
    [Push |-> GridLate, Pull |-> GridExact],
    [Push |-> GridPast, Pull |-> GridLong] }

(* ------------------- ranking the participants of a month --------------- *)
RECURSIVE sumOf(_, _)
\* totalsByIndex[nameIdx] += n, over a set of rows
sumOf(rows, nameIdx) ==
  IF rows = {} THEN 0
  ELSE LET r == CHOOSE x \in rows : TRUE
       IN (IF nameIdx <= Len(r.vals) THEN r.vals[nameIdx] ELSE 0)
          + sumOf(rows \ {r}, nameIdx)

\* the loop over rowIdx < stop: rows of the year and month asked for
totalsByIndex(rows, ns, y, m, stop) ==
  [nameIdx \in 1..Len(ns) |->
     sumOf({r \in rows : r.i <= stop /\ r.y = y /\ r.m = m}, nameIdx)]

\* Array.prototype.sort: an element goes after those the comparator puts
\* before it and after the earlier ones it ties with; before is the set of
\* the pairs <<i, j>> of positions for which the comparator puts s[i] first
StableSort(s, before) ==
  LET pos(i) == 1 + Cardinality({j \in 1..Len(s) :
                                   \/ <<j, i>> \in before
                                   \/ <<i, j>> \notin before /\ j < i})
  IN [p \in 1..Len(s) |-> s[CHOOSE i \in 1..Len(s) : pos(i) = p]]

\* the comparator with its sign turned
byTotalAscending(a, b) == a.total - b.total < 0

\* (a, b) => b.total - a.total
byTotalDescending(a, b) == b.total - a.total < 0

\* names.map(...).sort(...).map((e, i) => ({ rank: i + 1, ... }))
ranked(ns, totalsOf) ==
  LET entries == [i \in 1..Len(ns) |-> [name |-> ns[i], total |-> totalsOf[i]]]
      sorted == StableSort(entries, {k \in (1..Len(entries)) \X (1..Len(entries)) :
                                       byTotalDescending(entries[k[1]], entries[k[2]])})
  IN [i \in 1..Len(ns) |-> [rank |-> i, name |-> sorted[i].name, total |-> sorted[i].total]]

(* --------------------- fetchLeaderboardForMonth ------------------------ *)
IdleCall ==
  [pc |-> "idle", sheet |-> "", year |-> 0, month |-> 0, names |-> <<>>,
   chunkIndex |-> 0, rows |-> 0, reads |-> 0]

\* fetchLeaderboardForMonth(sheet, names, year, month), up to its first await;
\* run() of the hook before bulkFetch, its one caller, asks for the months
\* 1..monthsToFetch of the year and for one month at a time
FetchLeaderboardForMonth(sh, y, m) ==
  /\ mounted = "monthly"
  /\ flm.pc = "idle"
  /\ m <= monthsToFetch(y)
  /\ flmCalls < MaxBoards
  /\ flmCalls' = flmCalls + 1
  /\ LET ns == book[sh].names
         key == <<sh, y, m>>
     IN IF ns = <<>>
        THEN /\ flmOut' = [entries |-> <<>>, stop |-> 0]
             /\ ev' = Ev("monthCall", key, TRUE, FALSE, "none", 0, FALSE, TRUE)
             /\ UNCHANGED <<flm, monthCache>>
        ELSE IF key \in DOMAIN monthCache
        THEN /\ flmOut' = monthCache[key]
             /\ ev' = Ev("monthCall", key, TRUE, FALSE, "mem", 0, FALSE, TRUE)
             /\ UNCHANGED <<flm, monthCache>>
        ELSE /\ flm' = [pc |-> "read", sheet |-> sh, year |-> y, month |-> m, names |-> ns,
                        chunkIndex |-> 0, rows |-> 0, reads |-> 1]
             /\ ev' = Ev("monthCall", key, TRUE, FALSE, "none", 1, FALSE, TRUE)
             /\ UNCHANGED <<flmOut, monthCache>>
  /\ UNCHANGED <<mounted, envVars, pageVars, headerVars, totalsVars, legacyVars, namesVars, boardVars, nameDataVars,
                 book, bulkCall, bulkCalls, medalTotals>>

\* await getSheetValuesBatch(ranges) of fetchChunk settles: the rest of
\* fetchChunk, and after the last chunk the rest of the function
FlmChunkResolve(ok) ==
  /\ mounted = "monthly"
  /\ flm.pc = "read"
  /\ LET g == book[flm.sheet]
         key == <<flm.sheet, flm.year, flm.month>>
         n == flm.rows + dateRowsLength(g, flm.chunkIndex)
         stop == stopIndex(g, n)
         fetched == {r \in g.rows : r.i <= n}
         entries == ranked(flm.names, totalsByIndex(fetched, flm.names, flm.year, flm.month, stop))
         out == [entries |-> entries, stop |-> stop]
     IN IF ~ok
        THEN /\ flm' = IdleCall
             /\ flmOut' = [rejected |-> TRUE]
             /\ ev' = Ev("monthRead", key, TRUE, FALSE, "none", flm.reads, FALSE, FALSE)
             /\ UNCHANGED monthCache
        ELSE IF ~lastChunk(g, flm.chunkIndex, n)
        THEN /\ flm' = [flm EXCEPT !.chunkIndex = flm.chunkIndex + 1, !.rows = n,
                                   !.reads = flm.reads + 1]
             /\ ev' = Ev("monthRead", key, TRUE, FALSE, "none", flm.reads + 1, FALSE, TRUE)
             /\ UNCHANGED <<flmOut, monthCache>>
        ELSE /\ monthCache' = (key :> out) @@ monthCache
             /\ flmOut' = out
             /\ flm' = IdleCall
             /\ ev' = Ev("monthRead", key, TRUE, FALSE, "remote", flm.reads, FALSE, TRUE)
  /\ UNCHANGED <<mounted, envVars, pageVars, headerVars, totalsVars, legacyVars, namesVars, boardVars, nameDataVars,
                 book, bulkCall, bulkCalls, medalTotals, flmCalls>>

(* ------------------------------ bulkFetch ------------------------------ *)
\* const DATES_ROW_START = 6
DATES_ROW_START == 6

\* ranges.push(`'${sheet}'!E5:Z5`); ranges.push(`'${sheet}'!D6:Z3505`)
rangesOf(sh) ==
  << [sheet |-> sh, cols |-> "E:Z", from |-> DATES_ROW_START - 1, to |-> DATES_ROW_START - 1],
     [sheet |-> sh, cols |-> "D:Z", from |-> DATES_ROW_START,
      to |-> DATES_ROW_START + MAX_ROWS - 1] >>

RECURSIVE allRanges(_, _)
\* for (const sheet of sheetNames) { ranges.push(...); ranges.push(...) }
allRanges(sheetNames, s) ==
  IF s > Len(sheetNames) THEN <<>>
  ELSE rangesOf(sheetNames[s]) \o allRanges(sheetNames, s + 1)

\* fetchAllSheetsBulk with a getSheetValuesBatch of its own for every sheet
bulkRequestsSheetBySheet(sheetNames) ==
  [s \in 1..Len(sheetNames) |-> rangesOf(sheetNames[s])]

\* the remote reads of fetchAllSheetsBulk: await getSheetValuesBatch(ranges)
bulkRequests(sheetNames) == << allRanges(sheetNames, 1) >>

\* the last row of the window dated today, 0 when there is none: the loop of
\* lines 92-104 assigns stopAtIndex = i + 1 at every such row and goes on
lastToday(rows) ==
  LET at == {r.i : r \in {x \in rows : x.today}}
  IN IF at = {} THEN 0 ELSE CHOOSE i \in at : \A j \in at : i >= j

\* what fetchAllSheetsBulk makes of the two value ranges of a sheet
SheetBulkData(g) ==
  LET n == Min(g.len, MAX_ROWS)
      window == {r \in g.rows : r.i <= n}
  IN [names |-> g.names, rows |-> window, len |-> n,
      stopAtIndex |-> IF lastToday(window) > 0 THEN lastToday(window) ELSE n]

\* result.set(sheet, ...) for every sheet of sheetNames
fetchAllSheetsBulk(sheetNames, wb) ==
  [sh \in {sheetNames[s] : s \in 1..Len(sheetNames)} |-> SheetBulkData(wb[sh])]

computeLeaderboardForMonth(data, y, m) ==
  ranked(data.names, totalsByIndex(data.rows, data.names, y, m, data.stopAtIndex))

\* Math.ceil(month / 3)
\* the quarter counted from the rounded-down third
getQuarterByFloor(month) == (month \div 3) + 1

getQuarter(month) == (month + 2) \div 3

\* a Map<string, {gold, silver, bronze}> is the sequence of its entries in
\* the order of insertion
addMedal(map, name, type) ==
  IF \E i \in 1..Len(map) : map[i].name = name
  THEN [i \in 1..Len(map) |->
          IF map[i].name = name THEN [map[i] EXCEPT ![type] = @ + 1] ELSE map[i]]
  ELSE Append(map, [[name |-> name, gold |-> 0, silver |-> 0, bronze |-> 0]
                      EXCEPT ![type] = 1])

\* getOrCreateMonth, getOrCreateQuarter: the key comes to be if it is not
getOrCreate(maps, k) == IF k \in DOMAIN maps THEN maps ELSE (k :> <<>>) @@ maps

\* aggregateYear, aggregateByMonth, aggregateByQuarter, aggregateBySheet,
\* aggregateBySheetByMonth, aggregateBySheetByQuarter (lines 142-147); a map
\* of a sheet that was never created reads as an empty one
EmptyAggregates ==
  [year |-> <<>>, month |-> <<>>, quarter |-> <<>>,
   sheet |-> [sh \in Sheets |-> <<>>],
   sheetMonth |-> [k \in Months \X Sheets |-> <<>>],
   sheetQuarter |-> [k \in (1..4) \X Sheets |-> <<>>]]

\* the medal with the credit to the quarter and the year left out
addMedalToMonthOnly(a, sh, month, name, type) ==
  [a EXCEPT !.month[month] = addMedal(@, name, type),
            !.sheetMonth[<<month, sh>>] = addMedal(@, name, type)]

\* the six addMedal calls for one medal (lines 275-280)
addMedals(a, sh, month, name, type) ==
  [a EXCEPT !.year = addMedal(@, name, type),
            !.month[month] = addMedal(@, name, type),
            !.quarter[getQuarter(month)] = addMedal(@, name, type),
            !.sheet[sh] = addMedal(@, name, type),
            !.sheetMonth[<<month, sh>>] = addMedal(@, name, type),
            !.sheetQuarter[<<getQuarter(month), sh>>] = addMedal(@, name, type)]

\* the body of the month loop (lines 258-297)
creditMonth(a, sh, month, board) ==
  LET a0 == [a EXCEPT !.month = getOrCreate(@, month),
                      !.quarter = getOrCreate(@, getQuarter(month))]
      a1 == IF Len(board) >= 1 THEN addMedals(a0, sh, month, board[1].name, "gold") ELSE a0
      a2 == IF Len(board) >= 2 THEN addMedals(a1, sh, month, board[2].name, "silver") ELSE a1
  IN IF Len(board) >= 3 THEN addMedals(a2, sh, month, board[3].name, "bronze") ELSE a2

\* for (const sheet of sheetNames) for (let month = 1; month <= monthsToFetch;
\* month++): the aggregates after each pass through the body, sheet by sheet
sheetLoop(sheetNames, sheetsData, y) ==
  LET months == monthsToFetch(y)
      after[k \in 0..(Len(sheetNames) * months)] ==
        IF k = 0 THEN EmptyAggregates
        ELSE LET sh == sheetNames[((k - 1) \div months) + 1]
                 month == ((k - 1) % months) + 1
                 a == after[k - 1]
                 board == computeLeaderboardForMonth(sheetsData[sh], y, month)
             \* (the test has the aggregates so far evaluated before the body is,
             \* which keeps the evaluation of 24 passes shallow)
             IN IF a = a THEN creditMonth(a, sh, month, board) ELSE a
  IN after[Len(sheetNames) * months]

NoMedals == [gold |-> 0, silver |-> 0, bronze |-> 0]

\* sheetMap?.get(name)
countsOf(map, name) ==
  IF \E i \in 1..Len(map) : map[i].name = name
  THEN LET e == map[CHOOSE i \in 1..Len(map) : map[i].name = name]
       IN [gold |-> e.gold, silver |-> e.silver, bronze |-> e.bronze]
  ELSE NoMedals

hasMedal(e) == e.gold > 0 \/ e.silver > 0 \/ e.bronze > 0

\* the sheets with a medal of the participant; undefined is the empty record
buildByType(name, sheetAggregates) ==
  [sh \in {s \in DOMAIN sheetAggregates : hasMedal(countsOf(sheetAggregates[s], name))} |->
     countsOf(sheetAggregates[sh], name)]

score(e) == e.gold * 3 + e.silver * 2 + e.bronze

\* the comparator ordering by the number of medals only
byMedalCount(a, b) == (b.gold + b.silver + b.bronze) - (a.gold + a.silver + a.bronze) < 0

\* the comparator of sortCounts (lines 242-249) puts a before b
byScore(a, b) ==
  IF score(b) # score(a) THEN score(b) - score(a) < 0
  ELSE IF b.gold # a.gold THEN b.gold - a.gold < 0
  ELSE IF b.silver # a.silver THEN b.silver - a.silver < 0
  ELSE b.bronze - a.bronze < 0

sortCounts(entries, sheetAggregates) ==
  LET mapped == [i \in 1..Len(entries) |->
                   [name |-> entries[i].name, gold |-> entries[i].gold,
                    silver |-> entries[i].silver, bronze |-> entries[i].bronze,
                    byType |-> buildByType(entries[i].name, sheetAggregates)]]
      kept == SelectSeq(mapped, hasMedal)
  IN StableSort(kept, {k \in (1..Len(kept)) \X (1..Len(kept)) : byScore(kept[k[1]], kept[k[2]])})

\* the result for a year of monthsToFetch === 0 (lines 134-140)
NoMonths == [byYear |-> <<>>, byQuarter |-> [q \in 1..4 |-> <<>>], byMonth |-> <<>>]

\* what fetchMedalTotalsBulk returns once fetchAllSheetsBulk has resolved
medalTotalsOf(sheetNames, sheetsData, y) ==
  LET a == sheetLoop(sheetNames, sheetsData, y)
  IN [byYear |-> sortCounts(a.year, a.sheet),
      byQuarter |-> [q \in 1..4 |->
                       IF q \in DOMAIN a.quarter
                       THEN sortCounts(a.quarter[q], [sh \in Sheets |-> a.sheetQuarter[<<q, sh>>]])
                       ELSE <<>>],
      byMonth |-> [m \in DOMAIN a.month |->
                     sortCounts(a.month[m], [sh \in Sheets |-> a.sheetMonth[<<m, sh>>]])]]

\* the sheetNames a caller passes
SheetNameLists == { <<"Push">>, SheetNames }

IdleBulk == [pc |-> "idle", sheetNames |-> <<>>, year |-> 0, requests |-> <<>>]

\* fetchMedalTotalsBulk(sheetNames, year), up to its await
CallFetchMedalTotalsBulk(sheetNames, y) ==
  /\ mounted = "bulk"
  /\ bulkCall.pc # "read"
  /\ bulkCalls < MaxBoards
  /\ bulkCalls' = bulkCalls + 1
  /\ IF monthsToFetch(y) = 0
     THEN /\ bulkCall' = [pc |-> "done", sheetNames |-> sheetNames, year |-> y,
                           requests |-> <<>>]
          /\ medalTotals' = NoMonths
          /\ ev' = Ev("bulkCall", y, TRUE, FALSE, "none", 0, FALSE, TRUE)
     ELSE /\ bulkCall' = [pc |-> "read", sheetNames |-> sheetNames, year |-> y,
                           requests |-> bulkRequests(sheetNames)]
          /\ medalTotals' = None
          /\ ev' = Ev("bulkCall", y, TRUE, FALSE, "none", Len(bulkRequests(sheetNames)),
                      FALSE, TRUE)
  /\ UNCHANGED <<mounted, envVars, pageVars, headerVars, totalsVars, legacyVars, namesVars, boardVars, nameDataVars,
                 book, flm, flmOut, flmCalls, monthCache>>

\* the getSheetValuesBatch of fetchAllSheetsBulk settles: the rest of the function
BulkResolve(ok) ==
  /\ mounted = "bulk"
  /\ bulkCall.pc = "read"
  /\ bulkCall' = [bulkCall EXCEPT !.pc = "done"]
  /\ medalTotals' = IF ok THEN medalTotalsOf(bulkCall.sheetNames,
                                           fetchAllSheetsBulk(bulkCall.sheetNames, book),
                                           bulkCall.year)
                    ELSE [rejected |-> TRUE]
  /\ ev' = Ev("bulkRead", bulkCall.year, TRUE, FALSE, IF ok THEN "remote" ELSE "none",
              Len(bulkCall.requests), FALSE, ok)
  /\ UNCHANGED <<mounted, envVars, pageVars, headerVars, totalsVars, legacyVars, namesVars, boardVars, nameDataVars,
                 book, bulkCalls, flm, flmOut, flmCalls, monthCache>>

(* ------------------- HomePage: filterByDate and the bars --------------- *)
\* the calendar year the year y of the model stands for
calendarYear(y) == 2023 + y

\* a date cell: text that new Date parses, text that it does not, or blank
DateCell(y, m, d) == [kind |-> "date", y |-> calendarYear(y), m |-> m, d |-> d]
TextCell == [kind |-> "text", y |-> 0, m |-> 0, d |-> 0]
BlankCell == [kind |-> "blank", y |-> 0, m |-> 0, d |-> 0]

\* Date.prototype.getDay: 0 is Sunday
getDay(y, m, d) ==
  LET t == <<0, 3, 2, 5, 0, 3, 5, 1, 4, 6, 2, 4>>
      yy == IF m < 3 THEN y - 1 ELSE y
  IN (yy + (yy \div 4) - (yy \div 100) + (yy \div 400) + t[m] + d) % 7

\* parseDateCell: null for a blank cell and for text that is no date
parseDateCell(cell) ==
  IF cell.kind = "date"
  THEN [ok |-> TRUE, year |-> cell.y, month |-> cell.m, date |-> cell.d,
        day |-> getDay(cell.y, cell.m, cell.d)]
  ELSE [ok |-> FALSE, year |-> 0, month |-> 0, date |-> 0, day |-> 0]

\* Number(value) of the value cells of the model; "x" gives NaN
IsNaN(value) == value \notin {"5", "3", "0", "", " "}
NumberOf(value) ==
  CASE value = "5" -> 5 [] value = "3" -> 3 [] OTHER -> 0

\* Number.isNaN(n) ? 0 : n
countOf(value) == IF IsNaN(value) THEN 0 ELSE NumberOf(value)

\* row.value.trim() === '' || Number.isNaN(n) ? 0 : n
barValueOf(value) == IF value \in {"", " "} \/ IsNaN(value) THEN 0 ELSE NumberOf(value)

\* a filter argument: '' or a number
NoFilter == [set |-> FALSE, v |-> 0]
Only(v) == [set |-> TRUE, v |-> v]
\* !filter
Falsy(f) == ~f.set \/ f.v = 0

\* Math.ceil(month / 3) of useNameData
getQuarterOfMonth(month) == (month + 2) \div 3

\* the predicate that lets the rows without a date pass
keepsRowWithoutDate(row, filterYear, filterQuarter, filterMonth) ==
  LET d == parseDateCell(row.date)
  IN \/ ~d.ok
     \/ /\ ~(filterYear.set /\ d.year # filterYear.v)
        /\ ~(filterQuarter.set /\ getQuarterOfMonth(d.month) # filterQuarter.v)
        /\ ~(filterMonth.set /\ d.month # filterMonth.v)

\* the predicate of rows.filter in filterByDate
keepsRow(row, filterYear, filterQuarter, filterMonth) ==
  LET d == parseDateCell(row.date)
  IN /\ d.ok
     /\ ~(filterYear.set /\ d.year # filterYear.v)
     /\ ~(filterQuarter.set /\ getQuarterOfMonth(d.month) # filterQuarter.v)
     /\ ~(filterMonth.set /\ d.month # filterMonth.v)

filterByDate(rows, filterYear, filterQuarter, filterMonth) ==
  IF Falsy(filterYear) /\ Falsy(filterQuarter) /\ Falsy(filterMonth) THEN rows
  ELSE LET keep(row) == keepsRow(row, filterYear, filterQuarter, filterMonth)
       IN SelectSeq(rows, keep)

\* currentMonthData.reduce((sum, row) => sum + ..., 0)
totalCountOf(rows) ==
  LET sum[k \in 0..Len(rows)] ==
        IF k = 0 THEN 0 ELSE sum[k - 1] + countOf(rows[k].value)
  IN sum[Len(rows)]

\* the row adds its value to the bucket of every day
addsToEveryDay(row, i) == parseDateCell(row.date).ok

\* the row adds its value to acc[dayIndex]
addsTo(row, i) == parseDateCell(row.date).ok /\ parseDateCell(row.date).day = i

\* barDataTotal: acc[i] ?? 0 after the reduce over the rows
barDataByDay(rows) ==
  [i \in 0..6 |->
     LET sum[k \in 0..Len(rows)] ==
           IF k = 0 THEN 0
           ELSE sum[k - 1] + (IF addsTo(rows[k], i) THEN barValueOf(rows[k].value) ELSE 0)
     IN sum[Len(rows)]]

\* countsByDay: every row of the weekday adds 1
countsByDay(rows) ==
  [i \in 0..6 |-> Cardinality({k \in 1..Len(rows) : addsTo(rows[k], i)})]

\* barDataAverage: the quotient sums / counts as a fraction, 0 without rows
barDataAverageOf(rows) ==
  LET sums == barDataByDay(rows)
      counts == countsByDay(rows)
  IN [i \in 0..6 |-> IF counts[i] > 0 THEN [num |-> sums[i], den |-> counts[i]]
                     ELSE [num |-> 0, den |-> 1]]

\* the rows a session of the page can hold
PageDateCells ==
  {DateCell(1, 2, 1), DateCell(1, 2, 8), DateCell(1, 2, 2), DateCell(0, 2, 2),
   DateCell(1, 4, 4), TextCell}
PageValues == {"5", "3", "", "x"}
PageRowCells == [date : PageDateCells, value : PageValues]
\* the sheet has a row for a day, in the order of the days
dayNumber(cell) == (cell.y * 12 + cell.m) * 31 + cell.d
InDateOrder(rows) ==
  \A i, j \in 1..Len(rows) :
    i < j /\ rows[i].date.kind = "date" /\ rows[j].date.kind = "date"
      => dayNumber(rows[i].date) < dayNumber(rows[j].date)
PageRowLists ==
  {rows \in UNION {[1..n -> PageRowCells] : n \in 0..MaxPageRows} : InDateOrder(rows)}

\* the filters the selects of a page offer
YearFilters == {NoFilter, Only(calendarYear(CurrentYear)), Only(calendarYear(CurrentYear - 1))}
QuarterFilters == {NoFilter, Only(1)}
MonthFilters == {NoFilter, Only(CurrentMonth), Only(4)}

NotRendered == [op |-> "none"]

\* a caller filters the rows
CallFilterByDate(filterYear, filterQuarter, filterMonth) ==
  /\ mounted = "page"
  /\ page' = [op |-> "filter", filterYear |-> filterYear, filterQuarter |-> filterQuarter,
              filterMonth |-> filterMonth,
              out |-> filterByDate(pageRows, filterYear, filterQuarter, filterMonth)]
  /\ UNCHANGED <<mounted, envVars, totalsVars, legacyVars, namesVars, boardVars, nameDataVars,
                 bulkVars, pageRows, headerVars, ev>>

\* HomePage renders: lines 1346-1351 and 1427-1464
RenderHomePage ==
  /\ mounted = "page"
  /\ LET currentMonthData == filterByDate(pageRows, Only(calendarYear(CurrentYear)), NoFilter,
                                          Only(CurrentMonth))
         allYearsMonthData == filterByDate(pageRows, NoFilter, NoFilter, Only(CurrentMonth))
     IN page' = [op |-> "home",
                 totalCount |-> totalCountOf(currentMonthData),
                 barDataTotal |-> barDataByDay(currentMonthData),
                 barDataAverage |-> barDataAverageOf(allYearsMonthData)]
  /\ UNCHANGED <<mounted, envVars, totalsVars, legacyVars, namesVars, boardVars, nameDataVars,
                 bulkVars, pageRows, headerVars, ev>>

(* ------------------- the header row and the columns -------------------- *)
\* String(cell ?? '').trim()
trim(cell) == IF cell = " Cy" THEN "Cy" ELSE IF cell = " " THEN "" ELSE cell

RECURSIVE namesOfRow(_)
\* firstRow.map((cell) => String(cell ?? '').trim()).filter(Boolean)
namesOfRow(firstRow) ==
  IF firstRow = <<>> THEN <<>>
  ELSE (IF trim(Head(firstRow)) = "" THEN <<>> ELSE <<trim(Head(firstRow))>>)
         \o namesOfRow(Tail(firstRow))

\* String.fromCharCode(69 + nameIndex), as the char code
getColumnLetterForNameIndex(nameIndex) == 69 + nameIndex

\* the cell of row 5 in a column: E is the first of E5:Z5, and a cell past the
\* last value of the row is blank
headerCellOf(row, col) ==
  IF col - 68 \in 1..Len(row) THEN row[col - 68] ELSE ""

\* the values of E5:Z5 as the API returns them: a row ends with its last
\* cell that is not empty
HeaderCells == {"Al", "Bo", " Cy", " ", ""}
HeaderRows ==
  {row \in UNION {[1..n -> HeaderCells] : n \in 0..MaxHeaderCells} :
     row # <<>> => row[Len(row)] # ""}

NoRoster == [read |-> FALSE, names |-> <<>>]
NoColumn == [op |-> "none"]

\* the roster is read: fetchNamesForSheet after its await, and the names of
\* fetchAllSheetsBulk
ReadRoster ==
  /\ mounted = "header"
  /\ ~headerNames.read
  /\ headerNames' = [read |-> TRUE, names |-> namesOfRow(headerRow)]
  /\ UNCHANGED <<mounted, envVars, totalsVars, legacyVars, namesVars, boardVars, nameDataVars,
                 bulkVars, pageVars, headerRow, column, ev>>

\* fetchChunk builds the range of roster position i (from 0)
FetchChunkColumn(i) ==
  /\ mounted = "header"
  /\ headerNames.read
  /\ i + 1 \in 1..Len(headerNames.names)
  /\ column' = [op |-> "chunk", nameIndex |-> i, name |-> headerNames.names[i + 1],
                col |-> getColumnLetterForNameIndex(i)]
  /\ UNCHANGED <<mounted, envVars, totalsVars, legacyVars, namesVars, boardVars, nameDataVars,
                 bulkVars, pageVars, headerRow, headerNames, ev>>

\* fetchAllSheetsBulk takes row[nameIdx + 1] of a row of D:Z, whose cell 0 is
\* column D
BulkColumn(nameIdx) ==
  /\ mounted = "header"
  /\ headerNames.read
  /\ nameIdx + 1 \in 1..Len(headerNames.names)
  /\ column' = [op |-> "bulk", nameIndex |-> nameIdx, name |-> headerNames.names[nameIdx + 1],
                col |-> 68 + (nameIdx + 1)]
  /\ UNCHANGED <<mounted, envVars, totalsVars, legacyVars, namesVars, boardVars, nameDataVars,
                 bulkVars, pageVars, headerRow, headerNames, ev>>

(* --------------------------- environment ------------------------------- *)
\* only the caches with a TTL read the clock
Tick(d) ==
  /\ mounted \in {"totals", "names"}
  /\ now + d <= MaxNow
  /\ now' = now + d
  /\ UNCHANGED <<mounted, sheetVer, corpus, hookVars, ev>>

\* somebody edits the sheet
EditSheet ==
  /\ sheetVer = "rev0"
  /\ sheetVer' = "rev1"
  /\ UNCHANGED <<mounted, now, corpus, hookVars, ev>>

(* ----------------------------- Init ------------------------------------ *)
\* what an earlier session may have left in IndexedDB (for the current year;
\* an entry for another year comes to be stored by a run of this session)
StoredTotals(y) == {None, [data |-> fetchMedalTotalsBulk(y, "rev0"), fetchedAt |-> 0]}

InitTotals ==
  /\ year \in IF mounted = "totals" THEN Years ELSE {CurrentYear}
  /\ totalsCache = [y \in Years |-> None]
  /\ idb \in [Years -> UNION {StoredTotals(y) : y \in Years}]
  /\ \A y \in Years : idb[y] \in IF mounted = "totals" /\ y = CurrentYear
                                  THEN StoredTotals(y) ELSE {None}
  /\ totals = EmptyTotals
  /\ loading = FALSE
  /\ error = NoError
  /\ runIdRef = 0
  /\ runs = <<>>
  \* the effect of the first render: nothing in memory yet
  /\ eff = [pc |-> "db", year |-> year]
  /\ ev = Ev("effect", year, TRUE, FALSE, "none", 0, FALSE, TRUE)

InitLegacy ==
  /\ legacyYear \in IF mounted = "legacy" THEN Years ELSE {CurrentYear}
  /\ legacyTotals = EmptyTotals
  /\ legacyLoading = FALSE
  /\ legacyError = NoError
  /\ legacyRunIdRef = 0
  /\ legacyRuns = <<>>
  /\ legacyCache = [y \in Years |-> None]

\* what an earlier session may have left in localStorage
StoredNames(sh) == {None, [data |-> rosterOf(sh, "rev0"), fetchedAt |-> 0]}

InitNames ==
  /\ sheet = ""
  /\ names = NoNames
  /\ nLoading = FALSE
  /\ nError = NoError
  /\ nEff = [pc |-> "none", sheet |-> ""]
  /\ calls = <<>>
  /\ namesCache = [sh \in Sheets |-> None]
  /\ localStore \in [Sheets -> UNION {StoredNames(sh) : sh \in Sheets}]
  /\ \A sh \in Sheets : localStore[sh] \in IF mounted = "names" THEN StoredNames(sh) ELSE {None}
  /\ rosterRead = {}

BoardRosters == {NoNames} \cup {rosterOf(sh, "rev0") : sh \in Sheets}

InitBoard ==
  /\ selectedSheet = ""
  /\ lbNames = NoNames
  /\ leaderboard = EmptyBoard
  /\ lbLoading = FALSE
  /\ lbError = NoError
  /\ lbFetches = <<>>
  /\ leaderboardCache = [sh \in Sheets |-> None]

InitNameData ==
  /\ ndSheet = ""
  /\ ndName = ""
  /\ ndNames = NoNames
  /\ nameData = EmptyRows
  /\ ndLoading = FALSE
  /\ ndError = NoError
  /\ ndFetches = <<>>
  /\ cacheRef = [k \in NdKeys |-> None]
  /\ sessionStore = [k \in NdKeys |-> None]

\* the workbook is read by the computations only
InitBulk ==
  /\ book \in IF mounted \in {"bulk", "monthly"} THEN Books
              ELSE {[sh \in Sheets |-> GridEmpty]}
  /\ bulkCall = IdleBulk
  /\ bulkCalls = 0
  /\ medalTotals = None
  /\ flm = IdleCall
  /\ flmCalls = 0
  /\ flmOut = None
  /\ monthCache = <<>>

InitPage ==
  /\ pageRows \in IF mounted = "page" THEN PageRowLists ELSE {<<>>}
  /\ page = NotRendered

InitHeader ==
  /\ headerRow \in IF mounted = "header" THEN HeaderRows ELSE {<<>>}
  /\ headerNames = NoRoster
  /\ column = NoColumn

Hooks == {"totals", "legacy", "names", "board", "namedata", "bulk", "monthly", "page", "header"}

\* The hooks share no state: a behaviour exercises the one that is mounted.
InitFor(hooks) ==
  /\ mounted \in hooks
  /\ now = 0
  /\ sheetVer = "rev0"
  /\ corpus \in IF mounted \in {"board", "namedata"} THEN Corpora
                ELSE {[len |-> 0, today |-> 0]}
  /\ InitTotals
  /\ InitLegacy
  /\ InitNames
  /\ InitBoard
  /\ InitNameData
  /\ InitBulk
  /\ InitPage
  /\ InitHeader

NextTotals ==
  \/ \E force \in BOOLEAN : LoadTotals(force)
  \/ \E r \in 1..MaxRuns, ok \in BOOLEAN : DbResolve(r, ok)
  \/ \E r \in 1..MaxRuns, ok \in BOOLEAN : FetchResolve(r, ok)
  \/ \E r \in 1..MaxRuns, ok \in BOOLEAN : PersistResolve(r, ok)
  \/ \E y \in Years : SetYear(y)
  \/ \E ok \in BOOLEAN : EffResolve(ok)

NextLegacy ==
  \/ LegacyLoadTotals
  \/ \E r \in 1..MaxRuns, ok \in BOOLEAN : LegacyResolve(r, ok)
  \/ \E y \in Years : LegacySetYear(y)

NextNames ==
  \/ \E sh \in Sheets, throws \in BOOLEAN : FetchNames(sh, throws)
  \/ \E c \in 1..MaxCalls, ok \in BOOLEAN, throws \in BOOLEAN : FetchNamesResolve(c, ok, throws)
  \/ \E sh \in Sheets \cup {""}, throws \in BOOLEAN : SetSheet(sh, throws)
  \/ \E ok \in BOOLEAN, throws \in BOOLEAN : NamesEffResolve(ok, throws)

NextBoard ==
  \/ \E sh \in Sheets \cup {""}, ns \in BoardRosters : SetBoardInputs(sh, ns)
  \/ Refresh
  \/ \E f \in 1..MaxFetches, ok \in BOOLEAN : BoardChunkResolve(f, ok)

NextNameData ==
  \/ \E sh \in Sheets \cup {""}, name \in PickNames \cup {""}, ns \in BoardRosters :
        SetNameDataInputs(sh, name, ns)
  \/ \E f \in 1..MaxFetches, ok \in BOOLEAN, throws \in BOOLEAN :
        NameDataChunkResolve(f, ok, throws)

NextBulk ==
  \/ \E sheetNames \in SheetNameLists, y \in BulkYears :
        CallFetchMedalTotalsBulk(sheetNames, y)
  \/ \E ok \in BOOLEAN : BulkResolve(ok)

NextMonthly ==
  \/ \E sh \in Sheets, y \in BulkYears, m \in Months : FetchLeaderboardForMonth(sh, y, m)
  \/ \E ok \in BOOLEAN : FlmChunkResolve(ok)

NextPage ==
  \/ \E fy \in YearFilters, fq \in QuarterFilters, fm \in MonthFilters :
        CallFilterByDate(fy, fq, fm)
  \/ RenderHomePage

NextHeader ==
  \/ ReadRoster
  \/ \E i \in 0..(MaxHeaderCells - 1) : FetchChunkColumn(i)
  \/ \E nameIdx \in 0..(MaxHeaderCells - 1) : BulkColumn(nameIdx)

NextEnv ==
  \/ \E d \in TickHours : Tick(d)
  \/ EditSheet

Next == NextTotals \/ NextLegacy \/ NextNames \/ NextBoard \/ NextNameData \/ NextBulk
          \/ NextMonthly \/ NextPage \/ NextHeader \/ NextEnv

Init == InitFor(Hooks)

Spec == Init /\ [][Next]_vars

\* one hook at a time
SpecTotals == InitFor({"totals", "legacy"}) /\ [][NextTotals \/ NextLegacy \/ NextEnv]_vars
SpecNames == InitFor({"names"}) /\ [][NextNames \/ NextEnv]_vars
SpecBoard == InitFor({"board"}) /\ [][NextBoard \/ EditSheet]_vars
SpecNameData == InitFor({"namedata"}) /\ [][NextNameData \/ EditSheet]_vars
\* combinations of hooks
SpecQueries == InitFor({"totals", "board", "namedata"})
                 /\ [][NextTotals \/ NextBoard \/ NextNameData \/ NextEnv]_vars
SpecFetchers == InitFor({"board", "namedata"}) /\ [][NextBoard \/ NextNameData \/ EditSheet]_vars
SpecCaches == InitFor({"totals", "names"}) /\ [][NextTotals \/ NextNames \/ NextEnv]_vars
SpecRefresh == InitFor({"totals", "board"}) /\ [][NextTotals \/ NextBoard \/ NextEnv]_vars
\* the computations
SpecBulk == InitFor({"bulk"}) /\ [][NextBulk]_vars
SpecMonthly == InitFor({"monthly"}) /\ [][NextMonthly]_vars
SpecPage == InitFor({"page"}) /\ [][NextPage]_vars
SpecHeader == InitFor({"header"}) /\ [][NextHeader]_vars
\* the chunked fetchers
SpecRows == InitFor({"board", "namedata", "monthly"})
              /\ [][NextBoard \/ NextNameData \/ NextMonthly \/ EditSheet]_vars

(* ======================= the claims, in order ========================== *)
\* a step of a hook, as opposed to the clock or an edit of the sheet
HookStep == envVars' = envVars

\* run r's awaited operation settled in this step
RunStep(r) == r \in 1..Len(runs) /\ runs[r].pc # "done" /\ runs'[r].pc # runs[r].pc

\* the same for a run of the hook before bulkFetch
LegacyRunStep(r) == r \in 1..Len(legacyRuns) /\ legacyRuns'[r] # legacyRuns[r]

\* C1: a loadTotals run whose id is no longer runIdRef.current when its awaited
\* read settles changes neither totals, error, loading nor totalsCache, in the
\* bulk hook and in the hook before it: only the run of the current generation
\* commits a result or an error.
C1_StaleRunCommitsNothing ==
  [][\A r \in 1..MaxRuns :
       /\ RunStep(r) /\ r # runIdRef
            => UNCHANGED <<totals, error, loading, totalsCache>>
       /\ LegacyRunStep(r) /\ r # legacyRunIdRef
            => UNCHANGED <<legacyTotals, legacyError, legacyLoading, legacyCache>>]_vars

\* C1 witness: the remote read of a superseded run resolved and was dropped,
\* while a newer run is the current one
C1_Witness ==
  /\ ev.op = "fetch" /\ ~ev.cur /\ ev.ok
  /\ runIdRef = 2 /\ runs[1].pc = "done"

\* the chunk read of a fetch whose effect has been cleaned up settles
CancelledBoardStep(f) ==
  /\ f \in 1..Len(lbFetches)
  /\ lbFetches[f].pc = "read" /\ lbFetches[f].cancelled
  /\ (lbFetches'[f].pc = "done" \/ lbFetches'[f].chunkIndex # lbFetches[f].chunkIndex)
CancelledNameDataStep(f) ==
  /\ f \in 1..Len(ndFetches)
  /\ ndFetches[f].pc = "read" /\ ndFetches[f].cancelled
  /\ (ndFetches'[f].pc = "done" \/ ndFetches'[f].chunkIndex # ndFetches[f].chunkIndex)

\* C2: once a second query has superseded a fetch of useLeaderboardData or of
\* useNameData (every fetch but the newest is cancelled), the settling of the
\* superseded fetch changes neither the visible data, error and loading nor any
\* cache; only the newest fetch is observed.
C2_SupersededFetchIsInert ==
  [][/\ \A f \in 1..MaxFetches :
          /\ CancelledBoardStep(f)
               => UNCHANGED <<leaderboard, lbError, lbLoading, leaderboardCache>>
          /\ CancelledNameDataStep(f)
               => UNCHANGED <<nameData, ndError, ndLoading, cacheRef, sessionStore>>
     /\ \A f \in 1..(Len(lbFetches') - 1) : lbFetches'[f].pc = "read" => lbFetches'[f].cancelled
     /\ \A f \in 1..(Len(ndFetches') - 1) : ndFetches'[f].pc = "read" => ndFetches'[f].cancelled]_vars

\* C2 witness: a chunk read of the first fetch of the leaderboard resolved
\* after a second fetch had started; nothing of it is shown or cached
C2_Witness ==
  /\ ev.op = "boardChunk" /\ ~ev.cur /\ ev.ok
  /\ Len(lbFetches) = 2 /\ lbFetches[1].pc = "done" /\ lbFetches[2].pc = "read"
  /\ leaderboardCache[ev.key] = None

\* C3 as stated: every forced refresh, for any year or key, starts exactly one
\* remote read cycle, and the cycle ends with the fresh result in the cache.
C3_EveryForcedRefreshReadsOnceAndWrites ==
  ev.force =>
    /\ ev.op \in {"load", "boardEffect"} => ev.reads = 1
    /\ ev.op = "fetch" /\ ev.ok => totalsCache[ev.key] # None

\* C3 amended: a forced refresh removes the key from the memory cache whatever
\* was cached and starts one remote read cycle, except that loadTotals(true)
\* for a year after the current one and refresh() without a sheet or a roster
\* read nothing; the cycle is never repeated, and the fresh result is written
\* to the memory cache exactly when the cycle resolves while the refresh is
\* still the current one.
C3_ForcedRefresh ==
  [][HookStep /\ ev'.force =>
       /\ ev'.op = "load" =>
            /\ ev'.reads = (IF ev'.key > CurrentYear THEN 0 ELSE 1)
            /\ totalsCache'[ev'.key] = None
            /\ runIdRef' = runIdRef + 1
            /\ runs'[runIdRef'].pc = "fetch"
       /\ ev'.op \in {"fetch", "persist"} =>
            ev'.reads = (IF ev'.key > CurrentYear THEN 0 ELSE 1)
       /\ ev'.op = "fetch" =>
            IF ev'.ok /\ ev'.cur
            THEN totalsCache'[ev'.key] = MemEntry(fetchMedalTotalsBulk(ev'.key, sheetVer), now)
            ELSE UNCHANGED totalsCache
       /\ ev'.op = "boardEffect" =>
            /\ ev'.reads = (IF selectedSheet = "" \/ lbNames = NoNames THEN 0 ELSE 1)
            /\ ev'.key # "" => leaderboardCache'[ev'.key] = None
       /\ ev'.op = "boardChunk" =>
            IF ev'.ok /\ ev'.cur /\ ev'.src = "remote"
            THEN /\ leaderboardCache'[ev'.key] = leaderboard'
                 /\ leaderboard'.ver = sheetVer
            ELSE UNCHANGED leaderboardCache]_vars

\* C3 witness: a forced refresh of a year whose totals an earlier session had
\* stored read the sheet once and put the result of the newer revision in memory
C3_Witness ==
  /\ ev.op = "fetch" /\ ev.force /\ ev.cur /\ ev.ok /\ ev.reads = 1
  /\ totalsCache[ev.key] # None /\ totalsCache[ev.key].data.ver = "rev1"
  /\ idb[ev.key] # None /\ idb[ev.key].data.ver = "rev0"

\* loadTotals(true) for year y is the current run and has not committed yet
RefreshPending(y) ==
  \E r \in 1..Len(runs) :
    runs[r].force /\ runs[r].pc = "fetch" /\ runs[r].year = y /\ r = runIdRef

\* C4 as stated: while a forced refresh of a year is recomputing, the year has
\* no entry in the memory cache and none in IndexedDB, so that no read of the
\* year is served the value from before the refresh.
C4_RefreshEmptiesEveryTier ==
  \A y \in Years :
    RefreshPending(y) =>
      /\ totalsCache[y] = None
      /\ getCachedTotals(idb, y, now) = None
      /\ ev.op \in {"effect", "effdb", "db"} /\ ev.key = y => ev.src = "none"

\* the persistent store holds an entry for the key that is at most 24 hours old
FreshIn(store, key) == store[key] # None /\ now - store[key].fetchedAt <= CACHE_TTL_MS

\* a read of the names: fetchNamesForSheet(sheet) or the effect of useNamesForSheet
NamesRead(e) == e.op \in {"fetchNames", "namesEffect"} /\ e.key # ""

\* C5: a non-forced read looks in the memory Map first and in the persistent
\* store second, and reads the sheet only when both miss; a hit in either is
\* what the read delivers, with no remote read.
C5_TiersInOrder ==
  [][HookStep =>
       /\ ev'.op = "load" /\ ~ev'.force =>
            IF totalsCache[ev'.key] # None
            THEN /\ ev'.src = "mem" /\ ev'.reads = 0
                 /\ totals' = totalsCache[ev'.key].data
                 /\ UNCHANGED <<runs, runIdRef>>
            ELSE /\ ev'.src = "none" /\ ev'.reads = 0
                 /\ runs'[runIdRef'].pc = "db"
       /\ ev'.op = "db" /\ ev'.ok /\ ev'.cur =>
            IF FreshIn(idb, ev'.key)
            THEN /\ ev'.src = "store" /\ ev'.reads = 0
                 /\ totals' = idb[ev'.key].data
                 /\ runs'[runIdRef].pc = "done"
            ELSE /\ ev'.src = "none"
                 /\ ev'.reads = (IF ev'.key > CurrentYear THEN 0 ELSE 1)
                 /\ runs'[runIdRef].pc = "fetch"
       /\ NamesRead(ev') =>
            IF namesCache[ev'.key] # None
            THEN /\ ev'.src = "mem" /\ ev'.reads = 0
                 /\ ev'.op = "namesEffect" => names' = namesCache[ev'.key].data
                 /\ UNCHANGED <<calls, namesCache>>
            ELSE IF ev'.ok /\ FreshIn(localStore, ev'.key)
            THEN /\ ev'.src = "store" /\ ev'.reads = 0
                 /\ ev'.op = "namesEffect" => names' = localStore[ev'.key].data
                 /\ UNCHANGED calls
                 /\ ev'.op = "namesEffect" => nEff'.pc = "none"
            ELSE /\ ev'.src = "none" /\ ev'.reads = 1
                 /\ ev'.op = "fetchNames" => calls'[Len(calls')].pc = "read"
                 /\ ev'.op = "namesEffect" => nEff'.pc = "read"]_vars

\* C5 witness: loadTotals(false) found nothing in memory, IndexedDB answered
\* with the stored totals, and no read of the sheet was started
C5_Witness ==
  /\ ev.op = "db" /\ ev.cur /\ ev.ok /\ ev.src = "store" /\ ev.reads = 0
  /\ totals = idb[ev.key].data /\ ~loading

\* C6: an entry of localStorage or IndexedDB written at T is returned by a read
\* up to and including T + 24h and is a miss later; loadTotals and the reads of
\* the names then fetch from the sheet.
C6_PersistentEntryLivesADay ==
  [][HookStep =>
       /\ ev'.op \in {"db", "effdb"} /\ ev'.ok /\ idb[ev'.key] # None =>
            IF now - idb[ev'.key].fetchedAt <= CACHE_TTL_MS
            THEN ev'.src = "store"
            ELSE /\ ev'.src = "none"
                 /\ ev'.op = "db" /\ ev'.cur =>
                      runs'[runIdRef].pc = "fetch" /\ ev'.reads = bulkReads(ev'.key)
       /\ NamesRead(ev') /\ ev'.ok /\ namesCache[ev'.key] = None
             /\ localStore[ev'.key] # None =>
            IF now - localStore[ev'.key].fetchedAt <= CACHE_TTL_MS
            THEN ev'.src = "store" /\ namesCache'[ev'.key].data = localStore[ev'.key].data
            ELSE ev'.src = "none" /\ ev'.reads = 1]_vars

\* C6 witness: fetchNamesForSheet found a roster in localStorage that was
\* written 25 hours earlier, took it for a miss and read the sheet
C6_Witness ==
  /\ ev.op = "fetchNames" /\ ev.ok /\ ev.src = "none" /\ ev.reads = 1
  /\ localStore[ev.key] # None /\ now - localStore[ev.key].fetchedAt = 25
  /\ calls[Len(calls)].pc = "read"

\* C7 as stated: no tier, the memory Map included, returns an entry that was
\* fetched more than 24 hours earlier.
C7_NoTierReturnsAnOldEntry ==
  ev.src \in {"mem", "store"} => ~ev.old

\* C7 amended: the persistent tier never returns an entry that was fetched more
\* than 24 hours earlier; the memory Map has no TTL, and a non-forced read
\* returns what the Map holds whatever its age.
C7_OnlyThePersistentTierExpires ==
  [][HookStep =>
       /\ ev'.src = "store" => ~ev'.old
       /\ ev'.op \in {"load", "effect"} /\ ~ev'.force /\ totalsCache[ev'.key] # None =>
            ev'.src = "mem" /\ totals' = totalsCache[ev'.key].data
       /\ NamesRead(ev') /\ namesCache[ev'.key] # None => ev'.src = "mem"]_vars

\* C7 witness: the totals that the year effect promoted from IndexedDB are
\* returned from memory 25 hours after they were fetched, while a read of
\* IndexedDB at that time misses
C7_Witness ==
  /\ ev.op = "load" /\ ev.src = "mem" /\ ev.old
  /\ totals = totalsCache[ev.key].data
  /\ getCachedTotals(idb, ev.key, now) = None /\ idb[ev.key] # None

\* C8: a hit of the persistent store by a read that found nothing in memory
\* (and was not superseded meanwhile) puts the value into the memory Map; an
\* entry leaves the Map only by a forced refresh, and while it is there reads
\* are served from it without a read of the persistent store or of the sheet.
C8_HitIsPromoted ==
  [][HookStep =>
       /\ ev'.op \in {"db", "effdb"} /\ ev'.src = "store" /\ ev'.cur =>
            /\ totalsCache'[ev'.key] # None
            /\ totalsCache[ev'.key] = None => totalsCache'[ev'.key].data = idb[ev'.key].data
       /\ NamesRead(ev') /\ ev'.src = "store" =>
            namesCache'[ev'.key] # None /\ namesCache'[ev'.key].data = localStore[ev'.key].data
       /\ \A y \in Years : totalsCache[y] # None /\ totalsCache'[y] = None =>
            ev'.op = "load" /\ ev'.force /\ ev'.key = y
       /\ \A sh \in Sheets : namesCache[sh] # None => namesCache'[sh] # None
       /\ ev'.op = "load" /\ ~ev'.force /\ totalsCache[ev'.key] # None =>
            ev'.src = "mem" /\ ev'.reads = 0 /\ UNCHANGED <<runs, eff, idb>>
       /\ ev'.op = "effect" /\ totalsCache[ev'.key] # None =>
            ev'.src = "mem" /\ eff'.pc = "none" /\ UNCHANGED <<runs, idb>>
       /\ NamesRead(ev') /\ namesCache[ev'.key] # None =>
            /\ ev'.src = "mem" /\ ev'.reads = 0
            /\ ev'.op = "namesEffect" => nEff'.pc = "none"
            /\ UNCHANGED <<calls, localStore>>]_vars

\* C8 witness: no run has ever fetched, the year effect promoted the stored
\* totals, and loadTotals(false) was then served from memory
C8_Witness ==
  /\ ev.op = "load" /\ ev.src = "mem" /\ ev.reads = 0
  /\ runIdRef = 0 /\ eff.pc = "none"
  /\ totalsCache[ev.key].data = idb[ev.key].data /\ totals = idb[ev.key].data

\* C9 as stated: when IndexedDB rejects a read or a write of loadTotals, no
\* error is shown, a rejected read is followed by the fetch from the sheet, and
\* after a rejected write the result stays shown and stays in memory.
C9_StoreFailureIsSwallowed ==
  ev.op \in {"db", "persist"} /\ ~ev.ok /\ ev.cur =>
    /\ error = NoError
    /\ ev.op = "db" => runs[runIdRef].pc = "fetch"
    /\ ev.op = "persist" => totals = totalsCache[ev.key].data

\* C10: when a read of the sheet by a fetch that is still the current one
\* rejects, the hook's error is set, its data is reset to empty, loading is
\* false, and no cache is written, whatever earlier chunks had delivered.
C10_RejectedReadCommitsNothing ==
  [][HookStep /\ ~ev'.ok /\ ev'.cur =>
       /\ ev'.op = "boardChunk" =>
            /\ lbError' # NoError /\ leaderboard' = EmptyBoard /\ ~lbLoading'
            /\ UNCHANGED leaderboardCache
       /\ ev'.op = "nameDataChunk" =>
            /\ ndError' # NoError /\ nameData' = EmptyRows /\ ~ndLoading'
            /\ UNCHANGED <<cacheRef, sessionStore>>
       /\ ev'.op = "fetch" =>
            /\ error' # NoError /\ totals' = EmptyTotals /\ ~loading'
            /\ UNCHANGED <<totalsCache, idb>>]_vars

\* C10 witness: the third chunk read of the current leaderboard fetch rejected
\* after two chunks had been accumulated; the board is empty and nothing is cached
C10_Witness ==
  /\ ev.op = "boardChunk" /\ ~ev.ok /\ ev.cur /\ ev.reads = 3
  /\ lbError # NoError /\ leaderboard = EmptyBoard /\ ~lbLoading
  /\ leaderboardCache[ev.key] = None

\* the rows a chunked fetcher can reach: 25 chunks of 200 rows
Reachable(c) == Min(c.len, CHUNK_SIZE * MAX_CHUNKS)

\* the first row dated today when a fetcher can reach it, else every row it can reach
UpToToday(c) == IF c.today >= 1 /\ c.today <= Reachable(c) THEN c.today ELSE Reachable(c)

\* C11: the rows a chunked fetch hands to the aggregation, or returns as
\* history, are the rows from the first data row up to and including the first
\* row dated today (all the rows fetched when none is); no later row counts,
\* also when the chunk that held today's row goes on past it.
C11_RowsEndAtToday ==
  [][HookStep /\ ev'.cur /\ ev'.ok /\ ev'.src = "remote" =>
       /\ ev'.op = "boardChunk" =>
            /\ leaderboard'.stop = UpToToday(corpus)
            /\ leaderboardCache'[ev'.key] = leaderboard'
       /\ ev'.op = "nameDataChunk" =>
            /\ nameData'.stop = UpToToday(corpus)
            /\ cacheRef'[ev'.key] = nameData'
       /\ ev'.op = "monthRead" =>
            LET g == book[ev'.key[1]]
            IN /\ flmOut'.stop = UpToToday(g)
               /\ flmOut'.entries =
                    ranked(g.names, totalsByIndex(g.rows, g.names, ev'.key[2], ev'.key[3],
                                                  UpToToday(g)))]_vars

\* a month's board was computed from a sheet whose second chunk holds today's
\* row and, after it, a row of that month with numbers
C11_Witness ==
  /\ mounted = "monthly"
  /\ ev.op = "monthRead" /\ ev.src = "remote"
  /\ LET g == book[ev.key[1]]
     IN /\ g.today > CHUNK_SIZE
        /\ flmOut.stop = g.today
        /\ \E r \in g.rows : /\ r.i > g.today /\ r.i <= 2 * CHUNK_SIZE
                              /\ r.y = ev.key[2] /\ r.m = ev.key[3]
                              /\ \E i \in 1..Len(r.vals) : r.vals[i] > 0

\* the remote reads of a fetch that were issued and have not settled: it has
\* issued `reads` of them, and chunkIndex of them have resolved
InFlight(ft) == IF ft.pc = "read" THEN ft.reads - ft.chunkIndex ELSE 0

\* a fetch issued its next read in this step, in the continuation of the read
\* of chunk n that resolved
NextReadAfterResolve(old, new, op) ==
  new.reads > old.reads =>
    /\ old.pc = "read" /\ InFlight(old) = 1
    /\ ev'.op = op /\ ev'.ok
    /\ new.reads = old.reads + 1
    /\ new.chunkIndex = old.chunkIndex + 1

\* C12: within one fetch the chunk reads are strictly sequential: the read of
\* chunk n+1 is issued only when the read of chunk n has resolved, and a fetch
\* never has more than one remote read in flight.
C12_ChunksInSequence ==
  [][HookStep =>
       /\ \A f \in 1..Len(lbFetches') :
            /\ InFlight(lbFetches'[f]) <= 1
            /\ f <= Len(lbFetches) =>
                 NextReadAfterResolve(lbFetches[f], lbFetches'[f], "boardChunk")
            /\ f > Len(lbFetches) => lbFetches'[f].chunkIndex = 0 /\ lbFetches'[f].reads = 1
       /\ \A f \in 1..Len(ndFetches') :
            /\ InFlight(ndFetches'[f]) <= 1
            /\ f <= Len(ndFetches) =>
                 NextReadAfterResolve(ndFetches[f], ndFetches'[f], "nameDataChunk")
            /\ f > Len(ndFetches) => ndFetches'[f].chunkIndex = 0 /\ ndFetches'[f].reads = 1]_vars

\* a fetch waits for its third chunk
C12_Witness ==
  \E f \in 1..Len(lbFetches) :
    /\ lbFetches[f].pc = "read" /\ ~lbFetches[f].cancelled
    /\ lbFetches[f].chunkIndex = 2 /\ lbFetches[f].reads = 3

\* after chunk k a fetch has what it needs: today's row is among the rows so
\* far, or chunk k came back short, or k is the last index allowed
Enough(c, k) ==
  \/ c.today >= 1 /\ c.today <= Min(c.len, (k + 1) * CHUNK_SIZE)
  \/ c.len < (k + 1) * CHUNK_SIZE
  \/ k = MAX_CHUNKS - 1

\* the reads a fetch of the column needs: up to the first such chunk
ReadsNeeded(c) ==
  1 + CHOOSE k \in 0..(MAX_CHUNKS - 1) : Enough(c, k) /\ \A j \in 0..(k - 1) : ~Enough(c, j)

\* a fetch stays within the chunks 0..24, that is the rows 6..5005
WithinCap(ft) ==
  /\ ft.chunkIndex <= MAX_CHUNKS - 1
  /\ ft.reads <= MAX_CHUNKS
  /\ DATES_ROW_START + ft.chunkIndex * CHUNK_SIZE + CHUNK_SIZE - 1 <= 5005

\* C13: whatever the column holds, a chunked fetch ends after at most 25
\* remote reads: it asks for no chunk after the first one with which the
\* accumulated rows hold today's date or which came back with fewer than 200
\* date rows, and never for a chunk of index 25 or more.
C13_AtMost25Reads ==
  [][HookStep =>
       /\ \A f \in 1..Len(lbFetches') : WithinCap(lbFetches'[f])
       /\ \A f \in 1..Len(ndFetches') : WithinCap(ndFetches'[f])
       /\ WithinCap(flm')
       /\ ev'.cur /\ ev'.ok /\ ev'.src = "remote" =>
            /\ ev'.op \in {"boardChunk", "nameDataChunk"} => ev'.reads = ReadsNeeded(corpus)
            /\ ev'.op = "monthRead" => ev'.reads = ReadsNeeded(book[ev'.key[1]])]_vars

\* a fetch of a column of 5200 rows without today's date ended with its 25th read
C13_Witness ==
  /\ ev.op = "monthRead" /\ ev.src = "remote" /\ ev.reads = MAX_CHUNKS
  /\ book[ev.key[1]].len > CHUNK_SIZE * MAX_CHUNKS
  /\ flm.pc = "idle"

\* C14: the bulk variant applies the boundary of the chunked fetcher: for a
\* sheet of at most 3500 rows and the same roster, year, month and day,
\* computeLeaderboardForMonth over the bulk data cut at stopAtIndex gives the
\* board that fetchLeaderboardForMonth returns.
C14_BulkBoardIsChunkedBoard ==
  [][HookStep /\ ev'.op = "monthRead" /\ ev'.ok /\ ev'.src = "remote"
       /\ book[ev'.key[1]].len <= MAX_ROWS =>
          flmOut'.entries =
            computeLeaderboardForMonth(fetchAllSheetsBulk(SheetNames, book)[ev'.key[1]],
                                       ev'.key[2], ev'.key[3])]_vars

\* the ranges of one batched read cover the roster row and the data window of sheet sh
Covers(ranges, sh) ==
  /\ \E i \in 1..Len(ranges) :
       ranges[i] = [sheet |-> sh, cols |-> "E:Z", from |-> 5, to |-> 5]
  /\ \E i \in 1..Len(ranges) :
       ranges[i] = [sheet |-> sh, cols |-> "D:Z", from |-> 6, to |-> 3505]

\* C15: fetchMedalTotalsBulk for a past or the current year issues exactly one
\* batched remote read, which covers the roster row and the data window of
\* every category asked for, however many categories and months there are.
C15_OneBatchedRead ==
  [][HookStep =>
       /\ ev'.op = "bulkCall" /\ ev'.key <= CurrentYear =>
            /\ bulkCall'.pc = "read"
            /\ Len(bulkCall'.requests) = 1
            /\ \A s \in 1..Len(bulkCall'.sheetNames) :
                 Covers(bulkCall'.requests[1], bulkCall'.sheetNames[s])
       /\ ev'.op = "bulkRead" =>
            /\ bulkCall'.requests = bulkCall.requests
            /\ bulkCall'.pc = "done"]_vars

\* the medals of two categories and twelve months were computed from one read
C15_Witness ==
  /\ bulkCall.pc = "done" /\ bulkCall.year < CurrentYear
  /\ Len(bulkCall.sheetNames) = 2 /\ Len(bulkCall.requests) = 1
  /\ medalTotals # None /\ "byYear" \in DOMAIN medalTotals
  /\ DOMAIN medalTotals.byMonth = Months
  /\ medalTotals.byYear # <<>>

\* the board lists every roster position once, with its total and the ranks
\* 1..N in list order, by total from high to low, equal totals in roster order
IsRanking(board, ns, totalsOf) ==
  /\ Len(board) = Len(ns)
  /\ \A i \in 1..Len(board) : board[i].rank = i
  /\ \E at \in [1..Len(board) -> 1..Len(ns)] :
       /\ \A i, j \in 1..Len(board) : i # j => at[i] # at[j]
       /\ \A i \in 1..Len(board) :
            board[i].name = ns[at[i]] /\ board[i].total = totalsOf[at[i]]
       /\ \A i, j \in 1..Len(board) :
            i < j => \/ board[i].total > board[j].total
                     \/ board[i].total = board[j].total /\ at[i] < at[j]

\* C16: for every roster and every vector of totals the leaderboard is a
\* permutation of the roster, one entry per position, with the ranks 1..N in
\* list order and totals that do not increase; participants with equal totals
\* keep their roster order, and no rank is shared.
C16_BoardIsStableRanking ==
  [][HookStep /\ ev'.op = "monthRead" /\ ev'.ok /\ ev'.src = "remote" =>
       LET g == book[ev'.key[1]]
       IN IsRanking(flmOut'.entries, g.names,
                    totalsByIndex(g.rows, g.names, ev'.key[2], ev'.key[3], UpToToday(g)))]_vars

\* totals 10, 10, 7, 1: the two tens got the ranks 1 and 2 in roster order
C16_Witness ==
  /\ ev.op = "monthRead" /\ ev.src = "remote"
  /\ Len(flmOut.entries) = 4
  /\ flmOut.entries[1] = [rank |-> 1, name |-> "Al", total |-> 10]
  /\ flmOut.entries[2] = [rank |-> 2, name |-> "Bo", total |-> 10]
  /\ flmOut.entries[3].total = 7

\* everybody on a roster of the workbook
Participants == UNION {{g.names[i] : i \in 1..Len(g.names)} : g \in Grids}

MedalTypes == {"gold", "silver", "bronze"}

\* the rank that earns a medal
RankOf(type) == CASE type = "gold" -> 1 [] type = "silver" -> 2 [] type = "bronze" -> 3

\* the quarters as sets of months
MonthsOf(q) == {3 * q - 2, 3 * q - 1, 3 * q}

\* the board of a sheet for a month of the year the last call was made for
BoardOf(sh, month) ==
  computeLeaderboardForMonth(SheetBulkData(book[sh]), bulkCall.year, month)

\* the months and sheets for which participant p holds the rank of the medal
Earned(p, type, shs, months) ==
  Cardinality({k \in shs \X months :
                 /\ Len(BoardOf(k[1], k[2])) >= RankOf(type)
                 /\ BoardOf(k[1], k[2])[RankOf(type)].name = p})

\* the medals of a type a list of a bucket shows for p, and those of one sheet
Shown(list, p, type) ==
  IF \E i \in 1..Len(list) : list[i].name = p
  THEN list[CHOOSE i \in 1..Len(list) : list[i].name = p][type]
  ELSE 0
ShownOfSheet(list, p, sh, type) ==
  IF \E i \in 1..Len(list) : list[i].name = p /\ sh \in DOMAIN list[i].byType
  THEN list[CHOOSE i \in 1..Len(list) : list[i].name = p].byType[sh][type]
  ELSE 0

\* a bucket's list shows, for everybody, the medals earned in these months
BucketShows(list, shs, months) ==
  \A p \in Participants, type \in MedalTypes :
    /\ Shown(list, p, type) = Earned(p, type, shs, months)
    /\ \A sh \in Sheets :
         ShownOfSheet(list, p, sh, type) = Earned(p, type, shs \cap {sh}, months)

\* the sheets and months of the last call
CalledSheets == {bulkCall.sheetNames[s] : s \in 1..Len(bulkCall.sheetNames)}
CalledMonths == {m \in Months : IF bulkCall.year < CurrentYear THEN TRUE
                                   ELSE bulkCall.year = CurrentYear /\ m <= CurrentMonth}

\* C17: for each category and each computed month m, one gold goes to rank 1,
\* one silver to rank 2 and one bronze to rank 3, where these ranks exist, in
\* the buckets month m, quarter ceil(m / 3) and year, and in the per-category
\* breakdown of each; no other bucket and no other participant is credited.
C17_MedalsGoToTheTopThree ==
  [][HookStep /\ ev'.op = "bulkRead" /\ ev'.ok =>
       LET t == medalTotals'
       IN /\ BucketShows(t.byYear, CalledSheets', CalledMonths')
          /\ \A q \in 1..4 :
               BucketShows(t.byQuarter[q], CalledSheets', CalledMonths' \cap MonthsOf(q))
          /\ \A m \in Months :
               BucketShows(IF m \in DOMAIN t.byMonth THEN t.byMonth[m] ELSE <<>>,
                           CalledSheets', CalledMonths' \cap {m})]_vars

\* last year's medals of two categories: somebody holds medals of the fourth
\* quarter from both, and the one participant of a sheet holds only golds
C17_Witness ==
  /\ bulkCall.pc = "done" /\ bulkCall.year < CurrentYear /\ Len(bulkCall.sheetNames) = 2
  /\ "byQuarter" \in DOMAIN medalTotals
  /\ \E i \in 1..Len(medalTotals.byQuarter[4]) :
       DOMAIN medalTotals.byQuarter[4][i].byType = Sheets
  /\ \E sh \in Sheets : Len(book[sh].names) = 1

\* the medals of a type the month lists of these months show for p, added up
OverMonths(t, p, type, months) ==
  LET upTo[k \in 0..12] ==
        IF k = 0 THEN 0
        ELSE upTo[k - 1] + (IF k \in months /\ k \in DOMAIN t.byMonth
                            THEN Shown(t.byMonth[k], p, type) ELSE 0)
  IN upTo[12]

\* the medals of a type the per-category breakdown of a list shows for p, added up
OverSheets(list, p, type) ==
  LET upTo[k \in 0..Len(SheetNames)] ==
        IF k = 0 THEN 0
        ELSE upTo[k - 1] + ShownOfSheet(list, p, SheetNames[k], type)
  IN upTo[Len(SheetNames)]

\* C18: for every participant and medal type the year count is the sum of the
\* counts of the 12 month buckets, each quarter count the sum over its three
\* months, and in every bucket the count is the sum of the per-category counts.
C18_BucketsAddUp ==
  [][HookStep /\ ev'.op = "bulkRead" /\ ev'.ok =>
       LET t == medalTotals'
       IN \A p \in Participants, type \in MedalTypes :
            /\ Shown(t.byYear, p, type) = OverMonths(t, p, type, Months)
            /\ Shown(t.byYear, p, type) = OverSheets(t.byYear, p, type)
            /\ \A q \in 1..4 :
                 /\ Shown(t.byQuarter[q], p, type) = OverMonths(t, p, type, MonthsOf(q))
                 /\ Shown(t.byQuarter[q], p, type) = OverSheets(t.byQuarter[q], p, type)
            /\ \A m \in DOMAIN t.byMonth :
                 Shown(t.byMonth[m], p, type) = OverSheets(t.byMonth[m], p, type)]_vars

\* this year's medals of two categories, with somebody holding two golds of a
\* month, one from each category
C18_Witness ==
  /\ bulkCall.pc = "done" /\ bulkCall.year = CurrentYear
  /\ "byMonth" \in DOMAIN medalTotals
  /\ \E m \in DOMAIN medalTotals.byMonth : \E i \in 1..Len(medalTotals.byMonth[m]) :
       /\ medalTotals.byMonth[m][i].gold = 2
       /\ DOMAIN medalTotals.byMonth[m][i].byType = Sheets

\* the lists of a result: the year's, the four quarters' and the months'
ListsOf(t) ==
  {t.byYear} \cup {t.byQuarter[q] : q \in DOMAIN t.byQuarter}
             \cup {t.byMonth[m] : m \in DOMAIN t.byMonth}

Points(e) == 3 * e.gold + 2 * e.silver + e.bronze

\* a comes no later than b: more points, or as many and more golds, or as
\* many of both and more silvers, or as many of the three and no fewer bronzes
NoLaterThan(a, b) ==
  \/ Points(a) > Points(b)
  \/ /\ Points(a) = Points(b)
     /\ \/ a.gold > b.gold
        \/ /\ a.gold = b.gold
           /\ \/ a.silver > b.silver
              \/ a.silver = b.silver /\ a.bronze >= b.bronze

MedalOrder(list) ==
  /\ \A i \in 1..Len(list) : list[i].gold + list[i].silver + list[i].bronze >= 1
  /\ \A i, j \in 1..Len(list) : i < j =>
       /\ list[i].name # list[j].name
       /\ NoLaterThan(list[i], list[j])

\* C19: every list returned for a bucket holds only participants with a
\* medal, each once, by gold * 3 + silver * 2 + bronze descending and, for
\* equal scores, by gold, then silver, then bronze descending.
C19_ListsInMedalOrder ==
  [][HookStep /\ ev'.op \in {"bulkRead", "bulkCall"} /\ bulkCall'.pc = "done" /\ ev'.ok =>
       \A list \in ListsOf(medalTotals') : MedalOrder(list)]_vars

\* a returned list where two participants have the same score and the one
\* with more golds comes first
C19_Witness ==
  /\ bulkCall.pc = "done" /\ "byYear" \in DOMAIN medalTotals
  /\ \E list \in ListsOf(medalTotals) : \E i, j \in 1..Len(list) :
       /\ i < j /\ Points(list[i]) = Points(list[j])
       /\ list[i].gold > list[j].gold

\* the result of a call for a year before the current one has all 12 months
PastYearPolicy(y, t) ==
  y < CurrentYear => DOMAIN t.byMonth = 1..12 /\ DOMAIN t.byQuarter = 1..4

\* the result of a call for the current year has the months up to the current
\* one, and no medal in a quarter all of whose months are later
CurrentYearPolicy(y, t) ==
  y = CurrentYear =>
    /\ DOMAIN t.byMonth = 1..CurrentMonth
    /\ \A q \in 1..4 : (\A m \in MonthsOf(q) : m > CurrentMonth) => t.byQuarter[q] = <<>>

\* a call for a later year returns at once, with nothing read and no error
FutureYearReturnsAtOnce(y) ==
  y > CurrentYear =>
    /\ ev'.op = "bulkCall" /\ ev'.reads = 0 /\ ev'.ok
    /\ bulkCall'.requests = <<>>
    /\ DOMAIN medalTotals' = {"byYear", "byQuarter", "byMonth"}
    /\ medalTotals'.byYear = <<>>
    /\ DOMAIN medalTotals'.byMonth = {}

\* a call returns: at once for a later year, else when its read has resolved
BulkReturns ==
  /\ HookStep /\ ev'.op \in {"bulkRead", "bulkCall"} /\ ev'.ok
  /\ bulkCall'.pc = "done"

\* C20 as stated: 12 months for a year before the current one, months
\* 1..currentMonth for the current year, and for a later year byYear the empty
\* list with byMonth and byQuarter empty objects, no read and no error.
C20_FutureYearHasEmptyObjects ==
  [][BulkReturns =>
       /\ PastYearPolicy(bulkCall'.year, medalTotals')
       /\ CurrentYearPolicy(bulkCall'.year, medalTotals')
       /\ FutureYearReturnsAtOnce(bulkCall'.year)
       /\ bulkCall'.year > CurrentYear => DOMAIN medalTotals'.byQuarter = {}]_vars

\* C20: 12 months for a year before the current one, months 1..currentMonth
\* for the current year, and for a later year byYear the empty list, byMonth
\* an empty object and byQuarter an empty list under each of the four
\* quarters, with no read and no error.
C20_MonthCountPolicy ==
  [][BulkReturns =>
       /\ PastYearPolicy(bulkCall'.year, medalTotals')
       /\ CurrentYearPolicy(bulkCall'.year, medalTotals')
       /\ FutureYearReturnsAtOnce(bulkCall'.year)
       /\ bulkCall'.year > CurrentYear =>
            /\ DOMAIN medalTotals'.byQuarter = 1..4
            /\ \A q \in 1..4 : medalTotals'.byQuarter[q] = <<>>]_vars

\* the second call of a session is for next year and has returned
C20_Witness ==
  /\ bulkCall.pc = "done" /\ bulkCall.year > CurrentYear /\ bulkCalls = 2
  /\ bulkCall.requests = <<>>
  /\ "byQuarter" \in DOMAIN medalTotals /\ DOMAIN medalTotals.byQuarter = 1..4

\* the rows of the page dated in the current month of any year on weekday w
OnWeekday(w) ==
  {k \in 1..Len(pageRows) :
     /\ pageRows[k].date.kind = "date"
     /\ pageRows[k].date.m = CurrentMonth
     /\ getDay(pageRows[k].date.y, pageRows[k].date.m, pageRows[k].date.d) = w}

\* the values of a set of rows added up, those that are no number counting 0
RECURSIVE ValueSum(_)
ValueSum(ks) ==
  IF ks = {} THEN 0
  ELSE LET k == CHOOSE x \in ks : TRUE
       IN (IF pageRows[k].value \in {"5", "3"} THEN NumberOf(pageRows[k].value) ELSE 0)
            + ValueSum(ks \ {k})

\* the years that have a row on weekday w
YearsOn(w) == {pageRows[k].date.y : k \in OnWeekday(w)}

\* C21: the average of weekday w is the sum of the values of the rows of the
\* calendar month, of any year, that fall on w, divided by the number of
\* distinct years with a row on w, and 0 when no row falls on w.
C21_AverageDividesByYears ==
  page.op = "home" =>
    \A w \in 0..6 :
      LET value == page.barDataAverage[w]
      IN IF YearsOn(w) = {} THEN value.num = 0
         ELSE value.num * Cardinality(YearsOn(w)) = ValueSum(OnWeekday(w)) * value.den

\* C22: a roster is read from the remote source at most once per category in
\* a process lifetime: whatever the interleaving of fetchNamesForSheet calls
\* and useNamesForSheet effects for a category, a getSheetValues for its header
\* row is issued only if none was issued before.
C22_RosterReadOnce ==
  [][HookStep /\ ev'.op \in {"fetchNames", "namesEffect"} /\ ev'.reads = 1
       => ev'.key \notin rosterRead]_vars

\* the rows of the page dated in the current month of the current year on weekday w
ThisMonthOn(w) ==
  {k \in OnWeekday(w) : pageRows[k].date.y = calendarYear(CurrentYear)}

\* C23: in the weekday totals of a month every row with a date adds its value,
\* blank and non-numeric counting 0, to exactly one of the seven buckets, and
\* a row whose date does not parse adds to none: the bucket of weekday w is the
\* sum of the month's rows falling on w, and the seven buckets add up to the
\* month's total count.
C23_WeekdaysAddUpToTheMonth ==
  page.op = "home" =>
    /\ \A w \in 0..6 : page.barDataTotal[w] = ValueSum(ThisMonthOn(w))
    /\ page.barDataTotal[0] + page.barDataTotal[1] + page.barDataTotal[2]
          + page.barDataTotal[3] + page.barDataTotal[4] + page.barDataTotal[5]
          + page.barDataTotal[6] = page.totalCount

\* Thursday 1 February with "5", Friday 2 February blank and a row without a
\* date with "5": 5 in Thursday's bucket, 0 in Friday's, 5 in the month
C23_Witness ==
  /\ page.op = "home"
  /\ pageRows = << [date |-> DateCell(CurrentYear, 2, 1), value |-> "5"],
                   [date |-> DateCell(CurrentYear, 2, 2), value |-> ""],
                   [date |-> TextCell, value |-> "5"] >>
  /\ page.barDataTotal[4] = 5 /\ page.barDataTotal[5] = 0 /\ page.totalCount = 5

\* the rows with a date whose year, quarter and month are those of the
\* filters that are set
Matching(rows, fy, fq, fm) ==
  {k \in 1..Len(rows) :
     /\ rows[k].date.kind = "date"
     /\ fy.set => rows[k].date.y = fy.v
     /\ fq.set => rows[k].date.m \in MonthsOf(fq.v)
     /\ fm.set => rows[k].date.m = fm.v}

\* out holds the rows at the positions ks, in their order
IsSelection(out, rows, ks) ==
  /\ Len(out) = Cardinality(ks)
  /\ \A k \in ks : out[Cardinality({j \in ks : j <= k})] = rows[k]

C25_TotalsAreOfTheSelectedYear ==
  mounted = "totals" /\ totals # EmptyTotals => totals.yr = year

\* a fetch of the hook is in flight and not cancelled
Fetching(fetches) ==
  \E f \in 1..Len(fetches) : fetches[f].pc = "read" /\ ~fetches[f].cancelled

\* C26: in useNameData and useLeaderboardData the loading flag is false in
\* every state in which no uncancelled fetch is in flight, also when the
\* selection changes during a fetch and the new selection is served from the
\* cache or cleared.
C26_LoadingOnlyWhileFetching ==
  /\ mounted = "namedata" /\ ~Fetching(ndFetches) => ~ndLoading
  /\ mounted = "board" /\ ~Fetching(lbFetches) => ~lbLoading

\* C27: whenever a read of the leaderboard cache for (sheet, year, month)
\* hits, the leaderboard it returns is the one of the roster the caller
\* passed: a leaderboard computed with another roster is never served for the
\* current roster.
C27_HitIsOfTheCallersRoster ==
  [][HookStep /\ ev'.op = "boardEffect" /\ ev'.src = "mem"
       => leaderboard'.roster = lbNames']_vars

\* participant p has a total above zero on the board of the sheet for the
\* month, in the workbook and for the year of the call that is being answered
HasTotal(p, sh, month) ==
  \E i \in 1..Len(BoardOf(sh, month)) :
    BoardOf(sh, month)[i].name = p /\ BoardOf(sh, month)[i].total > 0

\* C28: a medal is credited for a month only to a participant whose total for
\* that month and category is greater than zero; a computed month in which
\* every total is 0 awards no medal.
C28_MedalsNeedATotal ==
  [][HookStep /\ ev'.op = "bulkRead" /\ ev'.ok =>
       \A m \in DOMAIN medalTotals'.byMonth, p \in Participants, sh \in Sheets,
          type \in MedalTypes :
         ShownOfSheet(medalTotals'.byMonth[m], p, sh, type) > 0 => HasTotal(p, sh, m)]_vars

\* a cancelled fetch with a read in flight stays as it is or ends, with no
\* read added to those it had issued and no row added to those it held
EndsWithoutReading(old, new) ==
  \A f \in 1..Len(old) :
    old[f].cancelled /\ old[f].pc = "read" =>
      IF new[f].pc = "done"
      THEN new[f].rows = 0 /\ ev'.reads = old[f].reads
      ELSE /\ new[f].cancelled /\ new[f].pc = "read"
           /\ new[f].chunkIndex = old[f].chunkIndex
           /\ new[f].reads = old[f].reads /\ new[f].rows = old[f].rows

\* C29: after a chunked fetch is cancelled it issues no further remote read:
\* the read in flight at the cancellation completes, its rows are not
\* accumulated and no later chunk is requested.
C29_CancelledFetchReadsNoMore ==
  [][/\ EndsWithoutReading(lbFetches, lbFetches')
     /\ EndsWithoutReading(ndFetches, ndFetches')]_vars

\* a fetch cancelled during its second chunk of a column of three chunks has
\* ended after two reads
C29_Witness ==
  /\ ev.op \in {"boardChunk", "nameDataChunk"} /\ ~ev.cur
  /\ ev.reads = 2
  /\ corpus.len > 2 * CHUNK_SIZE /\ corpus.today = 0

\* C30: the column that a read for roster position i addresses is the column
\* whose cell of row 5 holds the name at position i of the roster, for every
\* header row, those with blank cells between the names included.
C30_ColumnIsOfTheNamedParticipant ==
  mounted = "header" /\ column.op # "none" =>
    trim(headerCellOf(headerRow, column.col)) = column.name

====
